---- MODULE Spec2Model ----
(***************************************************************************)
(* A model of the spreadsheet core of 9sheet (package sheet): cell         *)
(* addresses, the formula parser, the evaluator, the cells with their      *)
(* upstream/downstream lists and the recalculation cascade, and the sheet. *)
(*                                                                         *)
(* Strings are sequences of one-character strings; a few fixed messages    *)
(* are kept as one piece.  A float64 that holds a whole number is an       *)
(* integer.  A *Cell is an identifier <<address, generation>> into heap.   *)
(***************************************************************************)
EXTENDS Integers, Sequences, FiniteSets, TLC

\* ------------------------------------------------------------------------
\* Characters
\* ------------------------------------------------------------------------
UpperLetters == <<"A","B","C","D","E","F","G","H","I","J","K","L","M",
                  "N","O","P","Q","R","S","T","U","V","W","X","Y","Z">>

LowerLetters == <<"a","b","c","d","e","f","g","h","i","j","k","l","m",
                  "n","o","p","q","r","s","t","u","v","w","x","y","z">>

DigitChars == <<"0","1","2","3","4","5","6","7","8","9">>

UpperSet == {UpperLetters[i] : i \in 1..26}

LowerSet == {LowerLetters[i] : i \in 1..26}

DigitSet == {DigitChars[i] : i \in 1..10}

LetterSet == UpperSet \cup LowerSet

\* the characters of an identifier: [a-zA-Z0-9]
IdSet == LetterSet \cup DigitSet

\* unicode.IsLetter, on the characters of the model
IsLetter(ch) == ch \in LetterSet

\* unicode.IsDigit
IsDigit(ch) == ch \in DigitSet

\* position of an upper-case letter in the alphabet, 1..26 (its byte order)
LetterIndex(ch) == CHOOSE i \in 1..26 : UpperLetters[i] = ch

\* value of a decimal digit
DigitVal(ch) == (CHOOSE i \in 1..10 : DigitChars[i] = ch) - 1

\* strings.ToUpper on one character
UpperChar(ch) ==
  IF ch \in LowerSet THEN UpperLetters[CHOOSE i \in 1..26 : LowerLetters[i] = ch]
  ELSE ch

\* strings.ToUpper
ToUpper(s) == [i \in 1..Len(s) |-> UpperChar(s[i])]

\* ------------------------------------------------------------------------
\* Decimal numbers
\* ------------------------------------------------------------------------
RECURSIVE DigitsValue(_)
\* value of a sequence of decimal digits
DigitsValue(ds) ==
  IF ds = <<>> THEN 0
  ELSE 10 * DigitsValue(SubSeq(ds, 1, Len(ds) - 1)) + DigitVal(ds[Len(ds)])

RECURSIVE NatDigits(_)
\* the decimal digits of a natural number, as %d prints it
NatDigits(n) ==
  IF n < 10 THEN <<DigitChars[n + 1]>>
  ELSE NatDigits(n \div 10) \o <<DigitChars[(n % 10) + 1]>>

RECURSIVE StripZeros(_)
StripZeros(ds) ==
  IF Len(ds) > 1 /\ ds[1] = "0" THEN StripZeros(Tail(ds)) ELSE ds

\* digits of math.MaxUint32
MaxUint32Digits == <<"4","2","9","4","9","6","7","2","9","5">>

RECURSIVE DigitsLess(_, _)
\* ds < es for two digit sequences of the same length
DigitsLess(ds, es) ==
  IF ds = <<>> THEN FALSE
  ELSE IF ds[1] # es[1] THEN DigitVal(ds[1]) < DigitVal(es[1])
  ELSE DigitsLess(Tail(ds), Tail(es))

\* strconv.ParseUint(s, 10, 32) on a non-empty sequence of digits.  A uint32
\* is represented by its canonical decimal digits (no leading zero), so that
\* the whole 32-bit range is covered.
ParseUint32(ds) ==
  LET Stripped(c) ==
        IF Len(c) > 10 \/ (Len(c) = 10 /\ DigitsLess(MaxUint32Digits, c))
        THEN [ok |-> FALSE, row |-> <<"0">>,
              err |-> <<"strconv.ParseUint: parsing ">> \o ds \o <<": value out of range">>]
        ELSE [ok |-> TRUE, row |-> c, err |-> <<>>]
  IN Stripped(StripZeros(ds))

\* ------------------------------------------------------------------------
\* Addresses (cell.go)
\* ------------------------------------------------------------------------
maxColDigits == 2

lastCol == <<"Z", "Z">>

\* CellAddress{col, row}
MkAddr(col, row) == [col |-> col, row |-> row]

\* the zero CellAddress{}
NoAddr == MkAddr(<<>>, <<"0">>)

RECURSIVE RunEnd(_, _, _)
\* first position at or after i whose character is not in class cls
RunEnd(s, i, cls) ==
  IF i > Len(s) \/ s[i] \notin cls THEN i ELSE RunEnd(s, i + 1, cls)

RECURSIVE FindAddrMatch(_, _)
\* addrRE.FindStringSubmatch for "([A-Za-z]+)([0-9]+)": the leftmost run of
\* letters that is followed by a digit, with the digits that follow it
FindAddrMatch(s, i) ==
  LET Letters(j) ==
        IF j <= Len(s) /\ IsDigit(s[j])
        THEN [found |-> TRUE, col |-> SubSeq(s, i, j - 1),
              digits |-> SubSeq(s, j, RunEnd(s, j, DigitSet) - 1)]
        ELSE FindAddrMatch(s, j)
  IN IF i > Len(s) THEN [found |-> FALSE, col |-> <<>>, digits |-> <<>>]
     ELSE IF ~IsLetter(s[i]) THEN FindAddrMatch(s, i + 1)
     ELSE Letters(RunEnd(s, i, LetterSet))

\* CellAddr(addr string) (CellAddress, error)
CellAddr(addr) ==
  LET Parsed(colstr, r) ==
        IF Len(colstr) > maxColDigits
        THEN [ok |-> FALSE, addr |-> NoAddr,
              err |-> <<"Invalid cell address '">> \o addr
                      \o <<"': Column address too big">>]
        ELSE IF ~r.ok
        THEN [ok |-> FALSE, addr |-> NoAddr,
              err |-> <<"Invalid cell address '">> \o addr \o <<"': ">> \o r.err]
        ELSE [ok |-> TRUE, addr |-> MkAddr(colstr, r.row), err |-> <<>>]
      Matched(m) ==
        IF ~m.found
        THEN [ok |-> FALSE, addr |-> NoAddr,
              err |-> <<"Invalid cell address '">> \o addr \o <<"'">>]
        ELSE Parsed(ToUpper(m.col), ParseUint32(m.digits))
  IN Matched(FindAddrMatch(addr, 1))

\* a String that puts a space between the column and the row
String_Spaced(ca) == ca.col \o <<" ">> \o ca.row

\* CellAddress.String: fmt.Sprintf("%s%d", ca.col, ca.row)
String(ca) == ca.col \o ca.row

\* the byte of a character: digits, then upper case, then lower case
CharCode(ch) ==
  IF ch \in DigitSet THEN 48 + DigitVal(ch)
  ELSE IF ch \in UpperSet THEN 64 + LetterIndex(ch)
  ELSE 96 + (CHOOSE i \in 1..26 : LowerLetters[i] = ch)

RECURSIVE LessColFrom(_, _, _)
\* for i := range ca.col { ... }: the first byte that differs decides
LessColFrom(col, col2, i) ==
  IF i > Len(col) THEN FALSE
  ELSE IF CharCode(col[i]) < CharCode(col2[i]) THEN TRUE
  ELSE IF CharCode(col[i]) > CharCode(col2[i]) THEN FALSE
  ELSE LessColFrom(col, col2, i + 1)

\* a LessCol that lets the rows decide between equal columns
LessCol_Rows(ca, ca2) ==
  IF Len(ca.col) < Len(ca2.col) THEN TRUE
  ELSE IF Len(ca.col) > Len(ca2.col) THEN FALSE
  ELSE IF ca.col = ca2.col
  THEN Len(ca.row) < Len(ca2.row)
       \/ (Len(ca.row) = Len(ca2.row) /\ DigitsLess(ca.row, ca2.row))
  ELSE LessColFrom(ca.col, ca2.col, 1)

\* CellAddress.LessCol
LessCol(ca, ca2) ==
  IF Len(ca.col) < Len(ca2.col) THEN TRUE
  ELSE IF Len(ca.col) > Len(ca2.col) THEN FALSE
  ELSE LessColFrom(ca.col, ca2.col, 1)

\* CellAddress.LEQCol
LEQCol(ca, ca2) == IF ca.col = ca2.col THEN TRUE ELSE LessCol(ca, ca2)

\* runes[activeCol] += 1, on a letter before 'Z'
SuccChar(ch) == UpperLetters[LetterIndex(ch) + 1]

RECURSIVE NextColRunes_NoGrow(_, _)
\* a loop of NextCol that never adds a letter in front
NextColRunes_NoGrow(runes, activeCol) ==
  IF activeCol < 1 THEN runes
  ELSE IF runes[activeCol] = "Z"
  THEN NextColRunes_NoGrow([runes EXCEPT ![activeCol] = "A"], activeCol - 1)
  ELSE [runes EXCEPT ![activeCol] = SuccChar(@)]

RECURSIVE NextColRunes(_, _)
\* the loop of NextCol over runes, from position activeCol down
NextColRunes(runes, activeCol) ==
  IF activeCol < 1 THEN runes
  ELSE IF runes[activeCol] = "Z"
  THEN IF activeCol = 1
       THEN <<"A">> \o [runes EXCEPT ![activeCol] = "A"]
       ELSE NextColRunes([runes EXCEPT ![activeCol] = "A"], activeCol - 1)
  ELSE [runes EXCEPT ![activeCol] = SuccChar(@)]

\* CellAddress.NextCol
NextCol(ca) ==
  IF ca.col = lastCol
  THEN [ok |-> FALSE, addr |-> NoAddr, err |-> <<"No more columns.">>]
  ELSE [ok |-> TRUE, addr |-> MkAddr(NextColRunes(ca.col, Len(ca.col)), ca.row),
        err |-> <<>>]

\* ------------------------------------------------------------------------
\* Formula parser (parse.go)
\* ------------------------------------------------------------------------
\* token{op, val}
Tok(o, v) == [op |-> o, val |-> v]

\* the zero token{}
NoTok == Tok("NONE", <<>>)

\* a nil *Expression
NilExp == [op |-> "NONE"]

\* &Expression{op: ID, val: v}
IdExp(v) == [op |-> "ID", left |-> NilExp, right |-> NilExp, val |-> v]

\* &Expression{op: o, left: l, right: r}
OpExp(o, l, r) == [op |-> o, left |-> l, right |-> r, val |-> <<>>]

\* io.EOF
EOF == <<"EOF">>

\* parser{r, look}: r is what the reader has not read yet
NewParser(input) == [r |-> input, look |-> NoTok]

\* parser.unreadToken
unreadToken(p, tok) ==
  IF p.look.op # "NONE"
  THEN [p |-> p, err |-> <<"Cannot unread more than one token.">>]
  ELSE [p |-> [p EXCEPT !.look = tok], err |-> <<>>]

\* the token of a one-character operator or parenthesis
PunctOp(ch) ==
  CASE ch = "-" -> "SUB"
    [] ch = "+" -> "ADD"
    [] ch = "*" -> "MUL"
    [] ch = "/" -> "DIV"
    [] ch = "(" -> "LP"
    [] ch = ")" -> "RP"
    [] OTHER -> "NONE"

\* a nextTok that hands out the pushed-back token and keeps it pending
nextTok_Keeping(p) ==
  LET Word(j) ==
        [tok |-> Tok("ID", SubSeq(p.r, 1, j - 1)), err |-> <<>>,
         p |-> [p EXCEPT !.r = SubSeq(p.r, j, Len(p.r))]]
      Rune(rn, o) ==
        IF o # "NONE"
        THEN [tok |-> Tok(o, <<>>), err |-> <<>>, p |-> [p EXCEPT !.r = Tail(p.r)]]
        ELSE IF ~(IsLetter(rn) \/ IsDigit(rn))
        THEN [tok |-> NoTok, err |-> <<"Unexpected rune ", rn>>,
              p |-> [p EXCEPT !.r = Tail(p.r)]]
        ELSE Word(RunEnd(p.r, 1, IdSet))
  IN IF p.look.op # "NONE"
     THEN [tok |-> p.look, err |-> <<>>, p |-> p]
     ELSE IF p.r = <<>> THEN [tok |-> NoTok, err |-> <<"EOF">>, p |-> p]
     ELSE Rune(Head(p.r), PunctOp(Head(p.r)))

\* parser.nextTok
nextTok(p) ==
  LET Word(j) ==
        \* the rune that ended the run is unread, unless it was EOF
        [tok |-> Tok("ID", SubSeq(p.r, 1, j - 1)), err |-> <<>>,
         p |-> [p EXCEPT !.r = SubSeq(p.r, j, Len(p.r))]]
      Rune(rn, o) ==
        IF o # "NONE"
        THEN [tok |-> Tok(o, <<>>), err |-> <<>>, p |-> [p EXCEPT !.r = Tail(p.r)]]
        ELSE IF ~(IsLetter(rn) \/ IsDigit(rn))
        THEN [tok |-> NoTok, err |-> <<"Unexpected rune ", rn>>,
              p |-> [p EXCEPT !.r = Tail(p.r)]]
        ELSE Word(RunEnd(p.r, 1, IdSet))
  IN IF p.look.op # "NONE"
     THEN [tok |-> p.look, err |-> <<>>, p |-> [p EXCEPT !.look = NoTok]]
     ELSE IF p.r = <<>> THEN [tok |-> NoTok, err |-> EOF, p |-> p]
     ELSE Rune(Head(p.r), PunctOp(Head(p.r)))

\* %#v of a token, as the error messages print it
TokText(t) == <<"token{op:", t.op, " val:">> \o t.val \o <<"}">>

\* an expectTok that takes the end of the input for the expected token
expectTok_Lax(p, t) ==
  LET Got(n) ==
        IF n.err = <<"EOF">> THEN [p |-> n.p, err |-> <<>>]
        ELSE IF n.err # <<>> THEN [p |-> n.p, err |-> n.err]
        ELSE IF n.tok # t
        THEN [p |-> n.p,
              err |-> <<"Expected ">> \o TokText(t) \o <<", but have ">> \o TokText(n.tok)]
        ELSE [p |-> n.p, err |-> <<>>]
  IN Got(nextTok(p))

\* parser.expectTok
expectTok(p, t) ==
  LET Got(n) ==
        IF n.err # <<>> THEN [p |-> n.p, err |-> n.err]
        ELSE IF n.tok # t
        THEN [p |-> n.p,
              err |-> <<"Expected ">> \o TokText(t) \o <<", but have ">> \o TokText(n.tok)]
        ELSE [p |-> n.p, err |-> <<>>]
  IN Got(nextTok(p))

\* result of a parse function: (*Expression, error) and the parser afterwards
PRes(e, err, p) == [e |-> e, err |-> err, p |-> p]

RECURSIVE parseEXP(_)
RECURSIVE parseSUBEXP(_)
RECURSIVE parseMDEXP(_, _)
RECURSIVE parsePMSEXP(_, _)

\* parser.parseSUBEXP:  SUBEXP = LP EXP RP | ID
parseSUBEXP(p) ==
  LET Closed(x, c) ==
        IF c.err # <<>> THEN PRes(NilExp, c.err, c.p) ELSE PRes(x.e, <<>>, c.p)
      Inner(x) ==
        IF x.err # <<>> THEN PRes(NilExp, x.err, x.p)
        ELSE Closed(x, expectTok(x.p, Tok("RP", <<>>)))
      Got(n) ==
        IF n.err # <<>> THEN PRes(NilExp, n.err, n.p)
        ELSE IF n.tok.op = "LP" THEN Inner(parseEXP(n.p))
        ELSE IF n.tok.op = "ID" THEN PRes(IdExp(n.tok.val), <<>>, n.p)
        ELSE PRes(NilExp, <<"Expected a SUBEXPR, but got token ">> \o TokText(n.tok), n.p)
  IN Got(nextTok(p))

\* parser.parseMDEXP:  MDEXP = MUL SUBEXP MDEXP | DIV SUBEXP MDEXP | END
parseMDEXP(p, left) ==
  LET Unread(u) ==
        IF u.err # <<>> THEN PRes(NilExp, u.err, u.p) ELSE PRes(left, <<>>, u.p)
      Operand(n, x) ==
        IF x.err # <<>> THEN PRes(NilExp, x.err, x.p)
        ELSE parseMDEXP(x.p, OpExp(n.tok.op, left, x.e))
      Got(n) ==
        IF n.err = EOF THEN PRes(left, <<>>, n.p)
        ELSE IF n.tok.op \in {"MUL", "DIV"} THEN Operand(n, parseSUBEXP(n.p))
        ELSE Unread(unreadToken(n.p, n.tok))
  IN Got(nextTok(p))

\* parser.parseMDSEXP:  MDSEXP = SUBEXP MDEXP
parseMDSEXP(p) ==
  LET First(x) ==
        IF x.err # <<>> THEN PRes(NilExp, x.err, x.p) ELSE parseMDEXP(x.p, x.e)
  IN First(parseSUBEXP(p))

\* a parsePMSEXP that groups '+' and '-' to the right: the operand becomes
\* the left side of the rest, and the operator is applied last
parsePMSEXP_Right(p, left) ==
  LET Unread(u) ==
        IF u.err # <<>> THEN PRes(NilExp, u.err, u.p) ELSE PRes(left, <<>>, u.p)
      Rest(n, r) ==
        IF r.err # <<>> THEN PRes(NilExp, r.err, r.p)
        ELSE PRes(OpExp(n.tok.op, left, r.e), <<>>, r.p)
      Operand(n, x) ==
        IF x.err # <<>> THEN PRes(NilExp, x.err, x.p)
        ELSE Rest(n, parsePMSEXP(x.p, x.e))
      Got(n) ==
        IF n.err = EOF THEN PRes(left, <<>>, n.p)
        ELSE IF n.tok.op \in {"ADD", "SUB"} THEN Operand(n, parseMDSEXP(n.p))
        ELSE Unread(unreadToken(n.p, n.tok))
  IN Got(nextTok(p))

\* parser.parsePMSEXP:  PMSEXP = ADD MDSEXP PMSEXP | SUB MDSEXP PMSEXP | END
parsePMSEXP(p, left) ==
  LET Unread(u) ==
        IF u.err # <<>> THEN PRes(NilExp, u.err, u.p) ELSE PRes(left, <<>>, u.p)
      Operand(n, x) ==
        IF x.err # <<>> THEN PRes(NilExp, x.err, x.p)
        ELSE parsePMSEXP(x.p, OpExp(n.tok.op, left, x.e))
      Got(n) ==
        IF n.err = EOF THEN PRes(left, <<>>, n.p)
        ELSE IF n.tok.op \in {"ADD", "SUB"} THEN Operand(n, parseMDSEXP(n.p))
        ELSE Unread(unreadToken(n.p, n.tok))
  IN Got(nextTok(p))

\* parser.parseEXP:  EXP = MDSEXP PMSEXP
parseEXP(p) ==
  LET First(x) ==
        IF x.err # <<>> THEN PRes(NilExp, x.err, x.p) ELSE parsePMSEXP(x.p, x.e)
  IN First(parseMDSEXP(p))

\* expectStr(r, "="), whose result ParseExpression discards: one byte is read
SkipEquals(eqn) == IF eqn = <<>> THEN eqn ELSE Tail(eqn)

\* ParseExpression(eqn string) (*Expression, error)
ParseExpression(eqn) ==
  LET Parsed(x) ==
        IF x.err # <<>> THEN PRes(NilExp, x.err, x.p) ELSE PRes(x.e, <<>>, x.p)
  IN Parsed(parseEXP(NewParser(SkipEquals(eqn))))

RECURSIVE upstreamAddrs_Lenient(_)
\* an upstreamAddrs that leaves out the identifiers that are no addresses
upstreamAddrs_Lenient(e) ==
  LET Leaf(a) == [addrs |-> IF a.ok THEN <<a.addr>> ELSE <<>>, err |-> <<>>]
      Both(l, r) == [addrs |-> l.addrs \o r.addrs, err |-> <<>>]
  IN IF e = NilExp THEN [addrs |-> <<>>, err |-> <<>>]
     ELSE IF e.op = "ID" THEN Leaf(CellAddr(e.val))
     ELSE Both(upstreamAddrs_Lenient(e.left), upstreamAddrs_Lenient(e.right))

RECURSIVE upstreamAddrs(_)
\* Expression.upstreamAddrs: the addresses of the reference nodes, left to right
upstreamAddrs(e) ==
  LET None == [addrs |-> <<>>, err |-> <<>>]
      Leaf(a) ==
        IF ~a.ok THEN [addrs |-> <<>>, err |-> a.err]
        ELSE [addrs |-> <<a.addr>>, err |-> <<>>]
      Right(l, r) ==
        IF r.err # <<>> THEN [addrs |-> <<>>, err |-> r.err]
        ELSE [addrs |-> l.addrs \o r.addrs, err |-> <<>>]
      Left(l) ==
        IF l.err # <<>> THEN [addrs |-> <<>>, err |-> l.err]
        ELSE Right(l, IF e.right # NilExp THEN upstreamAddrs(e.right) ELSE None)
  IN IF e.op = "ID" THEN Leaf(CellAddr(e.val))
     ELSE Left(IF e.left # NilExp THEN upstreamAddrs(e.left) ELSE None)

\* ------------------------------------------------------------------------
\* Numbers as text
\* ------------------------------------------------------------------------
\* fmt.Sprintf("%f", f) for a whole, non-negative f
FormatFloat(f) == NatDigits(f) \o <<".", "0", "0", "0", "0", "0", "0">>

\* strconv.ParseFloat(content, 64) on the numerals of the model: digits,
\* optionally followed by a point and zeros.  Every other string of the model
\* is not a number.
ParseFloat(content) ==
  LET Numeral(j) ==
        IF j > 1 /\ (j > Len(content)
                     \/ (content[j] = "."
                         /\ \A i \in (j + 1)..Len(content) : content[i] = "0"))
        THEN [ok |-> TRUE, f |-> DigitsValue(SubSeq(content, 1, j - 1))]
        ELSE [ok |-> FALSE, f |-> 0]
  IN Numeral(RunEnd(content, 1, DigitSet))

\* ------------------------------------------------------------------------
\* Cells (cell.go)
\* ------------------------------------------------------------------------
cell_transient == 0

cell_val == 1

cell_string == 2

cell_expr == 3

\* a nil error
NoErr == <<>>

\* fmt.Errorf("Cyclical equations detected.")
CyclicalErr == <<"Cyclical equations detected.">>

\* the "##ERROR" content
ErrorContent == <<"#", "#", "E", "R", "R", "O", "R">>

\* NewCell(a, s): &Cell{addr: a, sheet: s}
NewCell(a) ==
  [cell_type |-> cell_transient, addr |-> a, content |-> <<>>, val |-> 0,
   expstr |-> <<>>, exp |-> NilExp, expErr |-> NoErr,
   upstream |-> <<>>, downstream |-> <<>>,
   recalculating |-> FALSE, errCycle |-> FALSE]

\* The sheet while a call runs: the matrix (column -> row -> *Cell), the
\* cells (*Cell -> Cell), whether OnCellUpdated is set, the callback
\* invocations so far, the cells that have recursed into their upstream
\* cells from the cyclic branch so far, whether a panic is unwinding, and
\* whether the recursion went deeper than MaxDepth.
MkSheet(mx, hp, cb) ==
  [matrix |-> mx, heap |-> hp, cb |-> cb, log |-> <<>>, rounds |-> <<>>,
   panic |-> FALSE, overflow |-> FALSE]

\* Sheet.cellAt: the *Cell at addr, or nil
HasCell(S, addr) ==
  addr.col \in DOMAIN S.matrix /\ addr.row \in DOMAIN S.matrix[addr.col]

cellAt(S, addr) == S.matrix[addr.col][addr.row]

\* a Value that treats a number cell like a formula cell
Value_Merged(cell) ==
  CASE cell.cell_type = cell_transient -> [f |-> 0, err |-> NoErr]
    [] cell.cell_type = cell_string ->
         [f |-> 0, err |-> <<"Cannot get numeric value from ">> \o String(cell.addr)]
    [] cell.cell_type \in {cell_val, cell_expr} ->
         IF cell.expErr # NoErr
         THEN [f |-> 0, err |-> String(cell.addr) \o <<": ">> \o cell.expErr]
         ELSE [f |-> cell.val, err |-> NoErr]
    [] OTHER -> [f |-> 0, err |-> <<"Invalid cell type.">>]

\* Cell.Value
Value(cell) ==
  CASE cell.cell_type = cell_transient -> [f |-> 0, err |-> NoErr]
    [] cell.cell_type = cell_string ->
         [f |-> 0, err |-> <<"Cannot get numeric value from ">> \o String(cell.addr)]
    [] cell.cell_type = cell_val -> [f |-> cell.val, err |-> NoErr]
    [] cell.cell_type = cell_expr ->
         IF cell.expErr # NoErr
         THEN [f |-> 0, err |-> String(cell.addr) \o <<": ">> \o cell.expErr]
         ELSE [f |-> cell.val, err |-> NoErr]
    [] OTHER -> [f |-> 0, err |-> <<"Invalid cell type.">>]

\* Cell.Content
Content(cell) ==
  CASE cell.cell_type = cell_transient -> [s |-> <<>>, err |-> NoErr]
    [] cell.cell_type = cell_string -> [s |-> cell.content, err |-> NoErr]
    [] cell.cell_type = cell_val -> [s |-> FormatFloat(cell.val), err |-> NoErr]
    [] cell.cell_type = cell_expr ->
         IF cell.expErr # NoErr
         THEN [s |-> String(cell.addr) \o <<": ">> \o cell.expErr, err |-> NoErr]
         ELSE [s |-> FormatFloat(cell.val), err |-> NoErr]
    [] OTHER -> [s |-> ErrorContent, err |-> <<"Invalid cell type.">>]

\* Cell.EditValue
EditValue(cell) ==
  CASE cell.cell_type = cell_transient -> [s |-> <<>>, err |-> NoErr]
    [] cell.cell_type = cell_val -> [s |-> FormatFloat(cell.val), err |-> NoErr]
    [] cell.cell_type = cell_string -> [s |-> cell.content, err |-> NoErr]
    [] cell.cell_type = cell_expr -> [s |-> cell.expstr, err |-> NoErr]
    [] OTHER -> [s |-> <<>>, err |-> <<"Invalid cell type.">>]

\* Sheet.ValueAt(addr string) (float64, error)
ValueAt(S, addr) ==
  LET At(a) ==
        IF ~a.ok THEN [f |-> 0, err |-> a.err]
        ELSE IF ~HasCell(S, a.addr) THEN [f |-> 0, err |-> NoErr]
        ELSE Value(S.heap[cellAt(S, a.addr)])
  IN At(CellAddr(addr))

\* Sheet.ContentAt(addr string) (string, error)
ContentAt(S, addr) ==
  LET At(a) ==
        IF ~a.ok THEN [s |-> <<>>, err |-> a.err]
        ELSE IF ~HasCell(S, a.addr) THEN [s |-> <<>>, err |-> NoErr]
        ELSE Content(S.heap[cellAt(S, a.addr)])
  IN At(CellAddr(addr))

\* Sheet.EditAt(addr string) (string, error)
EditAt(S, addr) ==
  LET At(a) ==
        IF ~a.ok THEN [s |-> <<>>, err |-> a.err]
        ELSE IF ~HasCell(S, a.addr) THEN [s |-> <<>>, err |-> NoErr]
        ELSE EditValue(S.heap[cellAt(S, a.addr)])
  IN At(CellAddr(addr))

\* k > max on two uint32 rows, each held as its decimal digits
RowLess(row, row2) ==
  Len(row) < Len(row2) \/ (Len(row) = Len(row2) /\ DigitsLess(row, row2))

RECURSIVE maxColOver(_, _)
\* for k := range s.matrix { if max.LessCol(addr) { max = addr } }: what max
\* can be at the end, over the orders in which the keys may be visited
maxColOver(max, keys) ==
  IF keys = {} THEN {max}
  ELSE UNION {maxColOver(IF LessCol(max, MkAddr(k, <<"1">>)) THEN MkAddr(k, <<"1">>) ELSE max,
                         keys \ {k}) : k \in keys}

\* Sheet.maxCol (MaxCol): the addresses it can return
maxCol(S) == maxColOver(MkAddr(<<"A">>, <<"1">>), DOMAIN S.matrix)

RECURSIVE maxRowOver(_, _)
\* for _, col := range s.matrix { for k := range col { if k > max { max = k } } }
maxRowOver(max, keys) ==
  IF keys = {} THEN {max}
  ELSE UNION {maxRowOver(IF RowLess(max, k) THEN k ELSE max, keys \ {k}) : k \in keys}

\* Sheet.maxRow (MaxRow): the rows it can return
maxRow(S) == maxRowOver(<<"1">>, UNION {DOMAIN S.matrix[col] : col \in DOMAIN S.matrix})

\* ------------------------------------------------------------------------
\* Evaluator (eval.go)
\* ------------------------------------------------------------------------
RECURSIVE Eval(_, _)
\* Expression.Eval(s): (float64, error), or a panic
Eval(e, S) ==
  LET Ref(v) == [f |-> v.f, err |-> v.err, panic |-> FALSE]
      Right(l, r) ==
        IF r.panic \/ r.err # NoErr THEN [f |-> 0, err |-> r.err, panic |-> r.panic]
        ELSE [f |-> l.f + r.f, err |-> NoErr, panic |-> FALSE]
      Left(l) ==
        IF l.panic \/ l.err # NoErr THEN [f |-> 0, err |-> l.err, panic |-> l.panic]
        ELSE IF e.right = NilExp
        THEN [f |-> 0, err |-> <<"Bad expression">>, panic |-> FALSE]
        ELSE Right(l, Eval(e.right, S))
  IN IF e.op = "ID" THEN Ref(ValueAt(S, e.val))
     ELSE IF e.op = "ADD"
     THEN IF e.left = NilExp
          THEN [f |-> 0, err |-> <<"Bad Expression">>, panic |-> FALSE]
          ELSE Left(Eval(e.left, S))
     ELSE \* SUB, MUL, DIV: "NOT IMPLEMENTED"; any other op: "BAD OP VAL"
          [f |-> 0, err |-> NoErr, panic |-> TRUE]

\* ------------------------------------------------------------------------
\* Maps and the cells in use
\* ------------------------------------------------------------------------
\* m[k] = v
MapPut(m, k, v) == [x \in DOMAIN m \cup {k} |-> IF x = k THEN v ELSE m[x]]

\* delete(m, k)
MapDelete(m, k) == [x \in DOMAIN m \ {k} |-> m[x]]

\* the elements of a sequence
Range(seq) == {seq[i] : i \in 1..Len(seq)}

\* the values of a map
Values(m) == {m[k] : k \in DOMAIN m}

\* the cells the matrix holds
MatrixCells(mx) == UNION {Values(mx[col]) : col \in DOMAIN mx}

RECURSIVE Reachable(_, _)
\* the cells that can be reached from a set of cells through the lists
Reachable(hp, ids) ==
  LET Grown(more) == IF more = ids THEN ids ELSE Reachable(hp, more)
  IN Grown(ids \cup UNION {Range(hp[c].upstream) \cup Range(hp[c].downstream) : c \in ids})

\* A *Cell is <<address, generation>>.  A new cell takes the first generation
\* of its address that nothing refers to any more: an unreferenced cell is
\* garbage, and its identifier stands for a fresh pointer.
FreshCell(S, addr, editing) ==
  LET Unused(live) ==
        <<addr, CHOOSE k \in 0..Cardinality(live) :
                  <<addr, k>> \notin live
                  /\ \A j \in 0..(k - 1) : <<addr, j>> \in live>>
  IN Unused(Reachable(S.heap, MatrixCells(S.matrix) \cup editing))

\* what the garbage collector leaves of the heap once a call has returned
Collect(S) ==
  LET Kept(live) == [S EXCEPT !.heap = [c \in live |-> S.heap[c]]]
  IN Kept(Reachable(S.heap, MatrixCells(S.matrix)))

\* ------------------------------------------------------------------------
\* Cell graph maintenance (cell.go) and cell lookup (sheet.go)
\* ------------------------------------------------------------------------
\* deepest nesting of Recalculate calls the model follows
MaxDepth == 8

\* a cellOrNewAt that stores a new cell also where the sheet holds one
cellOrNewAt_Superseding(S, addr, editing) ==
  LET Stored(id, rows) ==
        [S |-> [S EXCEPT !.matrix = MapPut(S.matrix, addr.col, MapPut(rows, addr.row, id)),
                         !.heap = MapPut(S.heap, id, NewCell(addr))],
         cell |-> id]
  IN Stored(FreshCell(S, addr, editing),
            IF addr.col \in DOMAIN S.matrix THEN S.matrix[addr.col] ELSE <<>>)

\* Sheet.cellOrNewAt: the cell at addr, created and stored if there is none
cellOrNewAt(S, addr, editing) ==
  LET Stored(id, rows) ==
        [S |-> [S EXCEPT !.matrix = MapPut(S.matrix, addr.col, MapPut(rows, addr.row, id)),
                         !.heap = MapPut(S.heap, id, NewCell(addr))],
         cell |-> id]
  IN IF HasCell(S, addr) THEN [S |-> S, cell |-> cellAt(S, addr)]
     ELSE Stored(FreshCell(S, addr, editing),
                 IF addr.col \in DOMAIN S.matrix THEN S.matrix[addr.col] ELSE <<>>)

\* Cell.addDownstream
addDownstream(S, c, c2) ==
  [S EXCEPT !.heap[c].downstream = Append(@, c2)]

\* a deleteSelfIfNecessary that does not look at the dependents
deleteSelfIfNecessary_Always(S, c) ==
  LET cell == S.heap[c] IN
  IF cell.cell_type # cell_transient THEN S
  ELSE IF HasCell(S, cell.addr)
  THEN [S EXCEPT !.matrix[cell.addr.col] = MapDelete(@, cell.addr.row)]
  ELSE S

\* Cell.deleteSelfIfNecessary
deleteSelfIfNecessary(S, c) ==
  LET cell == S.heap[c] IN
  IF cell.cell_type # cell_transient THEN S
  ELSE IF Len(cell.downstream) = 0 /\ HasCell(S, cell.addr)
  THEN [S EXCEPT !.matrix[cell.addr.col] = MapDelete(@, cell.addr.row)]
  ELSE S

\* a removeDownstream that cuts the list without first moving the last entry
\* into the place of c2
removeDownstream_NoSwap(S, c, c2) ==
  LET ds == S.heap[c].downstream IN
  IF c2 \notin Range(ds) THEN deleteSelfIfNecessary(S, c)
  ELSE deleteSelfIfNecessary(
         [S EXCEPT !.heap[c].downstream = SubSeq(ds, 1, Len(ds) - 1)], c)

\* Cell.removeDownstream: the first occurrence of c2 is overwritten by the
\* last entry and the list is cut by one; then deleteSelfIfNecessary
removeDownstream(S, c, c2) ==
  LET ds == S.heap[c].downstream
      hits == {i \in 1..Len(ds) : ds[i] = c2}
  IN IF hits = {} THEN deleteSelfIfNecessary(S, c)
     ELSE LET i == CHOOSE h \in hits : \A g \in hits : h <= g
              swapped == [ds EXCEPT ![i] = ds[Len(ds)]]
          IN deleteSelfIfNecessary(
               [S EXCEPT !.heap[c].downstream = SubSeq(swapped, 1, Len(ds) - 1)], c)

\* ------------------------------------------------------------------------
\* Recalculation (cell.go)
\* ------------------------------------------------------------------------
\* the body of the non-cyclic branch: evaluate a formula that has an expression
Evaluate(S, c) ==
  LET Result(r) ==
        IF r.panic THEN [S EXCEPT !.panic = TRUE]
        ELSE IF r.err # NoErr
        THEN [S EXCEPT !.heap[c].expErr = r.err, !.heap[c].content = ErrorContent]
        ELSE [S EXCEPT !.heap[c].expErr = NoErr, !.heap[c].val = r.f,
                       !.heap[c].content = FormatFloat(r.f)]
  IN IF S.heap[c].cell_type # cell_expr \/ S.heap[c].exp = NilExp THEN S
     ELSE Result(Eval(S.heap[c].exp, S))

\* a callback that is not invoked for a cell that holds an error
Notify_NoErrors(S, c) ==
  IF ~S.cb \/ S.heap[c].expErr # NoErr THEN S
  ELSE [S EXCEPT !.log = Append(@, [addr |-> String(S.heap[c].addr),
                                    content |-> Content(S.heap[c]).s,
                                    value |-> Value(S.heap[c])])]

\* the deferred c.sheet.OnCellUpdated(c.addr.String(), c): what the callback
\* sees of the cell is recorded
Notify(S, c) ==
  IF ~S.cb THEN S
  ELSE [S EXCEPT !.log = Append(@, [addr |-> String(S.heap[c].addr),
                                    content |-> Content(S.heap[c]).s,
                                    value |-> Value(S.heap[c])])]

\* a re-entered cell that recurses into its upstream cells on every re-entry
FirstRound_Always(cell) == TRUE

\* if !c.errCycle: this is the first round through the cycle
FirstRound(cell) == ~cell.errCycle

\* a deferred call that leaves the in-progress mark as it is
ClearRecalculating_Skip(S, c) == S

\* the deferred func() { c.recalculating = false }()
ClearRecalculating(S, c) == [S EXCEPT !.heap[c].recalculating = FALSE]

RECURSIVE Recalculate(_, _, _)
RECURSIVE RecalculateEach(_, _, _, _, _, _)

\* for i := range list { list[i].Recalculate() } over c.upstream or c.downstream
RecalculateEach(S, c, up, i, n, d) ==
  IF i > n THEN S
  ELSE LET next == IF up THEN S.heap[c].upstream[i] ELSE S.heap[c].downstream[i]
       IN RecalculateEach(Recalculate(S, next, d), c, up, i + 1, n, d)

\* Cell.Recalculate, at nesting depth d.  A panic ends the program, so
\* nothing more is followed once one is raised.
Recalculate(S, c, d) ==
  LET \* We've hit a cycle.
      Cyclic(cell, S1) ==
        IF FirstRound(cell)
        THEN [RecalculateEach([S1 EXCEPT !.heap[c].errCycle = TRUE,
                                         !.rounds = Append(@, S1.heap[c].addr)],
                              c, TRUE, 1,
                              Len(cell.upstream), d + 1)
                EXCEPT !.heap[c].errCycle = FALSE]
        ELSE S1
      \* the deferred calls, last registered first
      Updated(S4) == ClearRecalculating(S4, c)
      Cascaded(S3) == Updated(IF S3.panic \/ S3.overflow THEN S3 ELSE Notify(S3, c))
      Evaluated(S2) ==
        Cascaded(RecalculateEach(S2, c, FALSE, 1, Len(S2.heap[c].downstream), d + 1))
      Entered(cell) ==
        IF cell.recalculating
        THEN Cyclic(cell, [S EXCEPT !.heap[c].expErr =
                                      IF cell.cell_type = cell_expr THEN CyclicalErr ELSE @,
                                    !.heap[c].content = ErrorContent])
        ELSE Evaluated(Evaluate([S EXCEPT !.heap[c].recalculating = TRUE], c))
  IN IF S.panic \/ S.overflow THEN S
     ELSE IF d > MaxDepth THEN [S EXCEPT !.overflow = TRUE]
     ELSE Entered(S.heap[c])

\* ------------------------------------------------------------------------
\* Setting content (cell.go, sheet.go)
\* ------------------------------------------------------------------------
RECURSIVE Detach(_, _, _)
\* for i := range c.upstream { c.upstream[i].removeDownstream(c) }
Detach(S, c, i) ==
  IF i > Len(S.heap[c].upstream) THEN S
  ELSE Detach(removeDownstream(S, S.heap[c].upstream[i], c), c, i + 1)

RECURSIVE Attach(_, _, _, _)
\* c.upstream[i] = c.sheet.cellOrNewAt(upAddrs[i]); c.upstream[i].addDownstream(c)
Attach(S, c, upAddrs, i) ==
  LET Linked(r) ==
        Attach(addDownstream([r.S EXCEPT !.heap[c].upstream = Append(@, r.cell)], r.cell, c),
               c, upAddrs, i + 1)
  IN IF i > Len(upAddrs) THEN S
     ELSE Linked(cellOrNewAt(S, upAddrs[i], {c}))

\* the part of Cell.SetContent before its deferred calls run
Classify(S, c, content) ==
  LET Resolved(S2, x, u) ==
        IF u.err # NoErr
        THEN [S2 EXCEPT !.heap[c].expErr = u.err, !.heap[c].content = ErrorContent]
        ELSE [Attach(S2, c, u.addrs, 1) EXCEPT !.heap[c].exp = x.e]
      Formula(S2, x) ==
        IF x.err # NoErr
        THEN [S2 EXCEPT !.heap[c].expErr = x.err, !.heap[c].content = ErrorContent]
        ELSE Resolved(S2, x, upstreamAddrs(x.e))
      Literal(S1, n) ==
        IF n.ok
        THEN [S1 EXCEPT !.heap[c].cell_type = cell_val, !.heap[c].val = n.f,
                        !.heap[c].content = FormatFloat(n.f)]
        ELSE [S1 EXCEPT !.heap[c].cell_type = cell_string, !.heap[c].content = content]
      Detached(S1) ==
        IF content = <<>>
        THEN [S1 EXCEPT !.heap[c] = [NewCell(S1.heap[c].addr)
                                       EXCEPT !.downstream = S1.heap[c].downstream]]
        ELSE IF Head(content) = "="
        THEN Formula([S1 EXCEPT !.heap[c].cell_type = cell_expr,
                                !.heap[c].expstr = content,
                                !.heap[c].exp = NilExp],
                     ParseExpression(content))
        ELSE Literal(S1, ParseFloat(content))
  IN Detached([Detach(S, c, 1) EXCEPT !.heap[c].upstream = <<>>])

\* Cell.SetContent: classify, then the deferred Recalculate and
\* deleteSelfIfNecessary, in that order
CellSetContent(S, c, content) ==
  LET Recalculated(S1) ==
        IF S1.panic \/ S1.overflow THEN S1 ELSE deleteSelfIfNecessary(S1, c)
  IN Recalculated(Recalculate(Classify(S, c, content), c, 1))

\* a Sheet.SetContent that creates the cell also for empty content
SheetSetContent_Eager(S, addr, content) ==
  LET Found(r) == [S |-> Collect(CellSetContent(r.S, r.cell, content)), err |-> NoErr]
      At(a) ==
        IF ~a.ok THEN [S |-> S, err |-> a.err]
        ELSE Found(cellOrNewAt(S, a.addr, {}))
  IN At(CellAddr(addr))

\* Sheet.SetContent(addr, content): the sheet afterwards and the error returned
SheetSetContent(S, addr, content) ==
  LET Found(r) == [S |-> Collect(CellSetContent(r.S, r.cell, content)), err |-> NoErr]
      At(a) ==
        IF ~a.ok THEN [S |-> S, err |-> a.err]
        ELSE IF content = <<>> /\ ~HasCell(S, a.addr) THEN [S |-> S, err |-> NoErr]
        ELSE Found(cellOrNewAt(S, a.addr, {}))
  IN At(CellAddr(addr))

\* ------------------------------------------------------------------------
\* Export and ingest (sheet.go)
\* ------------------------------------------------------------------------
\* iterations of a loop of WriteRange, and records of a stream, the model follows
MaxLoop == 6

RECURSIVE IncDigits(_)
\* the decimal digits of the number after ds
IncDigits(ds) ==
  IF ds = <<>> THEN <<"1">>
  ELSE IF ds[Len(ds)] = "9" THEN IncDigits(SubSeq(ds, 1, Len(ds) - 1)) \o <<"0">>
  ELSE SubSeq(ds, 1, Len(ds) - 1) \o <<DigitChars[DigitVal(ds[Len(ds)]) + 2]>>

\* row++ on a uint32
RowSucc(row) == IF row = MaxUint32Digits THEN <<"0">> ELSE IncDigits(row)

\* fmt.Sprintf("%s %d %s\n", col, len(command), command)
Record(col, command) ==
  String(col) \o <<" ">> \o NatDigits(Len(command)) \o <<" ">> \o command \o <<"\n">>

RECURSIVE WriteCols(_, _, _, _, _)
\* for ; col.LEQCol(end); col, _ = col.NextCol() {...}: the stream w after the
\* columns from col on, the error returned, and whether the loop was still
\* running after MaxLoop iterations
WriteCols(S, col, end, w, n) ==
  LET Command(command) ==
        IF command.err # NoErr THEN [w |-> w, err |-> command.err, cut |-> FALSE]
        ELSE WriteCols(S, NextCol(col).addr, end, w \o Record(col, command.s), n + 1)
  IN IF ~LEQCol(col, end) THEN [w |-> w, err |-> NoErr, cut |-> FALSE]
     ELSE IF n > MaxLoop THEN [w |-> w, err |-> NoErr, cut |-> TRUE]
     ELSE IF ~HasCell(S, col) THEN WriteCols(S, NextCol(col).addr, end, w, n + 1)
     ELSE Command(EditValue(S.heap[cellAt(S, col)]))

RECURSIVE WriteRows(_, _, _, _, _, _)
\* for row := start.row; row <= end.row; row++ {...}
WriteRows(S, start, end, row, w, n) ==
  LET Row(c) ==
        IF c.err # NoErr \/ c.cut THEN c
        ELSE WriteRows(S, start, end, RowSucc(row), c.w, n + 1)
  IN IF ~(row = end.row \/ RowLess(row, end.row))
     THEN [w |-> w, err |-> NoErr, cut |-> FALSE]
     ELSE IF n > MaxLoop THEN [w |-> w, err |-> NoErr, cut |-> TRUE]
     ELSE Row(WriteCols(S, MkAddr(start.col, row), end, w, 1))

\* Sheet.WriteRange(start, end, w), w empty before the call
WriteRange(S, start, end) == WriteRows(S, start, end, start.row, <<>>, 1)

\* the space characters of the streams of the model
IsSpace(ch) == ch \in {" ", "\n"}

\* io.EOF and io.ErrUnexpectedEOF
ErrEOF == EOF

ErrUnexpectedEOF == <<"unexpected EOF">>

RECURSIVE SkipBlanks(_)
\* the stream after its leading spaces, a newline not being one of them
SkipBlanks(r) == IF r # <<>> /\ r[1] = " " THEN SkipBlanks(Tail(r)) ELSE r

\* a space of the format: it matches the end of the input or at least one
\* space, and takes the spaces that follow; a newline does not match
ScanSpace(r) ==
  IF r = <<>> THEN [r |-> r, err |-> NoErr]
  ELSE IF r[1] = "\n" THEN [r |-> Tail(r), err |-> <<"newline in input does not match format">>]
  ELSE IF r[1] # " " THEN [r |-> Tail(r), err |-> <<"expected space in input to match format">>]
  ELSE [r |-> SkipBlanks(r), err |-> NoErr]

\* what a verb does first: it skips spaces, and fails on a newline and at the
\* end of the input
ScanStart(r) ==
  LET Skipped(t) ==
        IF t = <<>> THEN [r |-> t, err |-> ErrEOF]
        ELSE IF t[1] = "\n" THEN [r |-> Tail(t), err |-> <<"unexpected newline">>]
        ELSE [r |-> t, err |-> NoErr]
  IN Skipped(SkipBlanks(r))

\* the verb %50s: at most 50 characters up to the next space
ScanString(r) ==
  LET Token(t, j) ==
        [s |-> SubSeq(t, 1, j - 1), r |-> SubSeq(t, j, Len(t)), err |-> NoErr]
      Started(b) ==
        IF b.err # NoErr THEN [s |-> <<>>, r |-> b.r, err |-> b.err]
        ELSE Token(b.r, CHOOSE j \in 1..(Len(b.r) + 1) :
                          /\ j <= 51
                          /\ \A i \in 1..(j - 1) : ~IsSpace(b.r[i])
                          /\ (j = 51 \/ j > Len(b.r) \/ IsSpace(b.r[j])))
  IN Started(ScanStart(r))

\* the verb %d into a uint32
ScanUint32(r) ==
  LET Number(t, j, c) ==
        IF ~c.ok
        THEN [n |-> <<"0">>, r |-> SubSeq(t, j, Len(t)),
              err |-> <<"unsigned integer overflow on token ">> \o SubSeq(t, 1, j - 1)]
        ELSE [n |-> c.row, r |-> SubSeq(t, j, Len(t)), err |-> NoErr]
      Digits(t, j) ==
        IF j = 1 THEN [n |-> <<"0">>, r |-> t, err |-> <<"expected integer">>]
        ELSE Number(t, j, ParseUint32(SubSeq(t, 1, j - 1)))
      Started(b) ==
        IF b.err # NoErr THEN [n |-> <<"0">>, r |-> b.r, err |-> b.err]
        ELSE Digits(b.r, RunEnd(b.r, 1, DigitSet))
  IN Started(ScanStart(r))

\* fmt.Fscanf(r, "%50s %d ", &addr, &clen)
ScanHeader(r) ==
  LET Fail(err, t) == [addr |-> <<>>, clen |-> <<"0">>, r |-> t, err |-> err]
      End(a, d, e) ==
        IF e.err # NoErr THEN Fail(e.err, e.r)
        ELSE [addr |-> a.s, clen |-> d.n, r |-> e.r, err |-> NoErr]
      Length(a, d) == IF d.err # NoErr THEN Fail(d.err, d.r) ELSE End(a, d, ScanSpace(d.r))
      Gap(a, g) == IF g.err # NoErr THEN Fail(g.err, g.r) ELSE Length(a, ScanUint32(g.r))
      Address(a) == IF a.err # NoErr THEN Fail(a.err, a.r) ELSE Gap(a, ScanSpace(a.r))
  IN Address(ScanString(r))

\* fmt.Fscanf(r, "\n"): spaces, then a newline or the end of the input
ScanNewline(r) ==
  LET Skipped(t) ==
        IF t = <<>> THEN [r |-> t, err |-> NoErr]
        ELSE IF t[1] = "\n" THEN [r |-> Tail(t), err |-> NoErr]
        ELSE [r |-> Tail(t), err |-> <<"newline in format does not match input">>]
  IN Skipped(SkipBlanks(r))

\* io.ReadFull(r, bs) with len(bs) = n
ReadFull(r, n) ==
  IF Len(r) >= n
  THEN [bs |-> SubSeq(r, 1, n), r |-> SubSeq(r, n + 1, Len(r)), err |-> NoErr]
  ELSE [bs |-> r, r |-> <<>>, err |-> IF r = <<>> THEN ErrEOF ELSE ErrUnexpectedEOF]

\* read(r): the address, the content, the error, and the stream afterwards
read(r) ==
  LET Fail(err, t) == [addr |-> NoAddr, c |-> <<>>, err |-> err, r |-> t]
      Addressed(b, t, a) ==
        IF ~a.ok THEN Fail(a.err, t)
        ELSE [addr |-> a.addr, c |-> b.bs, err |-> NoErr, r |-> t]
      Line(h, b, e) == IF e.err # NoErr THEN Fail(e.err, e.r) ELSE Addressed(b, e.r, CellAddr(h.addr))
      Body(h, b) == IF b.err # NoErr THEN Fail(b.err, b.r) ELSE Line(h, b, ScanNewline(b.r))
      Header(h) ==
        IF h.err # NoErr THEN Fail(h.err, h.r)
        ELSE IF RowLess(<<"4", "0", "9", "6">>, h.clen)
        THEN Fail(<<"Bad length for content. Must be less than 4096.">>, h.r)
        ELSE Body(h, ReadFull(h.r, DigitsValue(h.clen)))
  IN Header(ScanHeader(r))

\* Sheet.Read(r): the sheet and the stream afterwards, and the error returned
Read(S, r) ==
  LET Set(d, x) == [S |-> x.S, r |-> d.r, err |-> x.err]
      Parsed(d) ==
        IF d.err # NoErr THEN [S |-> S, r |-> d.r, err |-> d.err]
        ELSE Set(d, SheetSetContent(S, String(d.addr), d.c))
  IN Parsed(read(r))

RECURSIVE ReadAll(_, _, _)
\* for { err := sheet.Read(sr); if err != nil { break } }: the sheet when Read
\* first fails, and that error
ReadAll(S, r, n) ==
  LET Once(x) ==
        IF x.err # NoErr \/ x.S.panic \/ x.S.overflow THEN [S |-> x.S, err |-> x.err, cut |-> FALSE]
        ELSE ReadAll(x.S, x.r, n + 1)
  IN IF n > MaxLoop THEN [S |-> S, err |-> NoErr, cut |-> TRUE]
     ELSE Once(Read(S, r))

\* ------------------------------------------------------------------------
\* The program: a sheet and the calls made on it
\* ------------------------------------------------------------------------
\* the address strings the calls use
AddrInputs == {<<"A", "1">>, <<"A", "2">>, <<"B", "1">>}

\* the contents the calls use: empty, a number, text, and formulas
ContentInputs ==
  { <<>>,
    <<"1">>,
    <<"x">>,
    <<"=", "(", "A", "1", "+", "A", "1", ")">>,
    <<"=", "A", "2">>,
    <<"=", "B", "1">>,
    <<"=", "A", "1", "+", "A", "2">>,
    <<"=", "A", "1", "+">>,
    <<"=", "A", "1", "+", "5">>,
    <<"=", "A", "1", "-", "A", "2">>,
    <<"=", "A", "1", "*", "A", "2">>,
    <<"=", "A", "1", "/", "A", "2">>
  }

\* the number of SetContent calls the model follows
MaxEdits == 3

\* the addresses the calls name
Addrs == {CellAddr(s).addr : s \in {t \in AddrInputs : CellAddr(t).ok}}

VARIABLES
  matrix,         \* Sheet.matrix: column -> row -> *Cell
  heap,           \* the cells: *Cell -> Cell
  OnCellUpdated,  \* whether Sheet.OnCellUpdated is set
  updates,        \* the callback invocations of the last SetContent
  panicked,       \* the program was ended by a panic
  overflowed,     \* a call nested Recalculate deeper than MaxDepth
  entered,        \* the content last set at each address
  edits,          \* the number of SetContent calls made
  last,           \* the last call: its address, content and returned error
  fn              \* the last call of a function that changes no sheet: its
                  \* name, its input and what it returned

vars == <<matrix, heap, OnCellUpdated, updates, panicked, overflowed, entered, edits, last, fn>>

\* the sheet between calls
Now == MkSheet(matrix, heap, OnCellUpdated)

NoCall == [addr |-> <<>>, content |-> <<>>, err |-> NoErr]

\* no function was called since the sheet last changed
NoFn == [name |-> "none"]

\* NewSheet(), with no callback
Init ==
  /\ matrix = <<>>
  /\ heap = <<>>
  /\ OnCellUpdated = FALSE
  /\ updates = <<>>
  /\ panicked = FALSE
  /\ overflowed = FALSE
  /\ entered = [a \in Addrs |-> <<>>]
  /\ edits = 0
  /\ last = NoCall
  /\ fn = NoFn

\* s.SetContent(addr, content)
SetContent(addr, content) ==
  /\ ~panicked
  /\ ~overflowed
  /\ edits < MaxEdits
  /\ edits' = edits + 1
  /\ \E r \in {SheetSetContent(Now, addr, content)}, a \in {CellAddr(addr)} :
        /\ last' = [addr |-> addr, content |-> content, err |-> r.err]
        /\ panicked' = r.S.panic
        /\ overflowed' = r.S.overflow
        /\ IF r.S.panic \/ r.S.overflow
           THEN \* the process is gone, and its sheet with it
                /\ matrix' = <<>>
                /\ heap' = <<>>
                /\ updates' = <<>>
                /\ entered' = [x \in Addrs |-> <<>>]
           ELSE /\ matrix' = r.S.matrix
                /\ heap' = r.S.heap
                /\ updates' = r.S.log
                /\ entered' = IF a.ok /\ a.addr \in Addrs
                              THEN [entered EXCEPT ![a.addr] = content]
                              ELSE entered
        /\ fn' = NoFn
        /\ UNCHANGED OnCellUpdated

\* s.OnCellUpdated = func(addr string, c *Cell) {...}: the user sets the callback
SetOnCellUpdated ==
  /\ ~panicked
  /\ ~overflowed
  /\ ~OnCellUpdated
  /\ OnCellUpdated' = TRUE
  /\ UNCHANGED <<matrix, heap, updates, panicked, overflowed, entered, edits, last, fn>>

Next ==
  \/ \E addr \in AddrInputs, content \in ContentInputs : SetContent(addr, content)
  \/ SetOnCellUpdated

Spec == Init /\ [][Next]_vars

\* the contents the calls use where a sheet is written out and read back
IOContents ==
  { <<>>,
    <<"1">>,
    <<" ", "x">>,
    <<"=", "A", "2">>,
    <<"=", "A", "1", "+", "A", "2">> }

\* the corners of the ranges that are written out
RangeCorners == Addrs \cup {MkAddr(<<"B">>, <<"2">>)}

\* sheet.WriteRange(start, end, b); sheet = NewSheet(); then sheet.Read(sr)
\* until it fails: fn holds the stream, the new sheet and the errors
Reimport(start, end) ==
  /\ ~panicked
  /\ ~overflowed
  /\ \E w \in {WriteRange(Now, start, end)} :
       \E x \in {ReadAll(MkSheet(<<>>, <<>>, FALSE), w.w, 1)} :
         fn' = [name |-> "Reimport", in |-> [start |-> start, end |-> end],
                out |-> [w |-> w.w, werr |-> w.err, S |-> x.S, err |-> x.err,
                         cut |-> w.cut \/ x.cut]]
  /\ UNCHANGED <<matrix, heap, OnCellUpdated, updates, panicked, overflowed, entered, edits, last>>

NextIO ==
  \/ \E addr \in AddrInputs, content \in IOContents : SetContent(addr, content)
  \/ \E start \in RangeCorners, end \in RangeCorners : Reimport(start, end)

SpecIO == Init /\ [][NextIO]_vars

\* ------------------------------------------------------------------------
\* The parser on its own: formulas are drawn and parsed
\* ------------------------------------------------------------------------
\* the identifiers of the drawn formulas
IdNames == {<<"A", "1">>, <<"b", "2">>}

OpNames == {"ADD", "SUB", "MUL", "DIV"}

\* the expression trees with operators nested at most twice
Trees0 == {IdExp(v) : v \in IdNames}

Trees1 == Trees0 \cup {OpExp(o, l, r) : o \in OpNames, l \in Trees0, r \in Trees0}

Trees2 == Trees0 \cup {OpExp(o, l, r) : o \in OpNames, l \in Trees1, r \in Trees1}

\* how a tree is written: with the parentheses the grammar needs, with
\* parentheses around every operator operand, or around every operand
Styles == {"needed", "operators", "all"}

\* the character of an operator
OpChar(o) ==
  CASE o = "ADD" -> "+"
    [] o = "SUB" -> "-"
    [] o = "MUL" -> "*"
    [] o = "DIV" -> "/"

\* the binding strength the grammar gives a node
Prec(e) ==
  IF e.op = "ID" THEN 3 ELSE IF e.op \in {"MUL", "DIV"} THEN 2 ELSE 1

RECURSIVE Render(_, _)
\* the text of a tree: an operand is parenthesised where the style asks for
\* it, and always where the grammar would otherwise group it differently (a
\* left operand that binds weaker, a right operand that binds no stronger)
Render(e, style) ==
  IF e.op = "ID" THEN e.val
  ELSE LET Wrap(x, needed) ==
             IF needed \/ style = "all" \/ (style = "operators" /\ x.op # "ID")
             THEN <<"(">> \o Render(x, style) \o <<")">>
             ELSE Render(x, style)
       IN Wrap(e.left, Prec(e.left) < Prec(e)) \o <<OpChar(e.op)>>
          \o Wrap(e.right, Prec(e.right) <= Prec(e))

\* formulas without white space, and the places a space is put into them
BaseFormulas ==
  { <<"=", "A", "1">>,
    <<"=", "A", "1", "+", "B", "1">>,
    <<"=", "A", "1", "*", "B", "1">>,
    <<"=", "(", "A", "1", ")">>,
    <<"=", "A", "1", "+", "B", "1", "*", "A", "1">> }

\* s with the character ch put in before position i
InsertAt(s, i, ch) == SubSeq(s, 1, i - 1) \o <<ch>> \o SubSeq(s, i, Len(s))

\* the formulas of BaseFormulas, and each with one space after the '='
SpacedFormulas ==
  BaseFormulas \cup
  UNION {{InsertAt(b, i, " ") : i \in 2..(Len(b) + 1)} : b \in BaseFormulas}

\* an untouched sheet and one drawn input, waiting for the call named by it
Drawn(inputs) ==
  /\ matrix = <<>>
  /\ heap = <<>>
  /\ OnCellUpdated = FALSE
  /\ updates = <<>>
  /\ panicked = FALSE
  /\ overflowed = FALSE
  /\ entered = [a \in Addrs |-> <<>>]
  /\ edits = 0
  /\ last = NoCall
  /\ fn \in inputs

\* the characters the drawn formulas are made of: a letter, operators of both
\* strengths, the parentheses, and a character that is part of no token
GrammarChars == {"A", "+", "*", "(", ")", "#"}

\* the longest drawn formula, not counting the '='
MaxFormula == 5

\* every formula of at most MaxFormula such characters after the '='
GrammarTexts ==
  UNION {{<<"=">> \o t : t \in [1..n -> GrammarChars]} : n \in 0..MaxFormula}

InitParse ==
  Drawn({[name |-> "tree", tree |-> tree, style |-> style] : tree \in Trees2, style \in Styles}
        \cup {[name |-> "text", eqn |-> eqn] : eqn \in SpacedFormulas \cup GrammarTexts})

\* ParseExpression("=" + the text of the drawn tree)
ParseRendered ==
  /\ fn.name = "tree"
  /\ \E eqn \in {<<"=">> \o Render(fn.tree, fn.style)} :
       fn' = [name |-> "ParseRendered", in |-> eqn, tree |-> fn.tree,
              out |-> ParseExpression(eqn)]
  /\ UNCHANGED <<matrix, heap, OnCellUpdated, updates, panicked, overflowed, entered, edits, last>>

\* ParseExpression(eqn) on the drawn text
ParseText ==
  /\ fn.name = "text"
  /\ fn' = [name |-> "ParseText", in |-> fn.eqn, out |-> ParseExpression(fn.eqn)]
  /\ UNCHANGED <<matrix, heap, OnCellUpdated, updates, panicked, overflowed, entered, edits, last>>

NextParse ==
  \/ ParseRendered
  \/ ParseText

SpecParse == InitParse /\ [][NextParse]_vars

\* ------------------------------------------------------------------------
\* Addresses on their own: texts, addresses and columns are drawn
\* ------------------------------------------------------------------------
\* the characters the drawn address texts are made of
AddrChars == {"A", "z", "1", "0", "+"}

\* the longest drawn text over AddrChars
MaxText == 4

\* the texts over AddrChars of length n
TextsOf(n) == {t \in [1..n -> AddrChars] : TRUE}

\* the drawn address texts: every short text, and the long ones of TestCellAddr
\* with the rows at both sides of math.MaxUint32
AddrTexts ==
  UNION {TextsOf(n) : n \in 0..MaxText}
  \cup { <<"z", "z", "2", "0", "0", "0", "0", "0", "0", "0", "0">>,
         <<"A", "A", "1", "0", "0", "0", "0", "0", "0", "0", "0", "0", "0", "0", "0", "0", "0">>,
         <<"A", "A">> \o MaxUint32Digits,
         <<"a", "0">> \o MaxUint32Digits,
         <<"A", "4", "2", "9", "4", "9", "6", "7", "2", "9", "6">> }

\* the columns of a sheet: A..Z and AA..ZZ
AllCols ==
  {<<l>> : l \in UpperSet} \cup {<<l, m>> : l \in UpperSet, m \in UpperSet}

\* the columns drawn for comparisons
SomeCols ==
  {<<l>> : l \in {"A", "B", "Z"}} \cup {<<l, m>> : l \in {"A", "B", "Z"}, m \in {"A", "B", "Z"}}

\* the rows drawn with them
SomeRows == {<<"1">>, <<"2">>}

InitAddr ==
  Drawn({[name |-> "text", text |-> t] : t \in AddrTexts}
        \cup {[name |-> "addr", addr |-> MkAddr(c, r)] :
                c \in AllCols, r \in {<<"1">>, MaxUint32Digits}}
        \cup {[name |-> "walk", addr |-> MkAddr(<<"A">>, <<"7">>), n |-> 1, err |-> NoErr]}
        \cup {[name |-> "cols", a |-> MkAddr(c, r), b |-> MkAddr(c2, r2), c |-> MkAddr(c3, <<"1">>)] :
                c \in SomeCols, c2 \in SomeCols, c3 \in SomeCols,
                r \in SomeRows, r2 \in SomeRows})

\* CellAddr(text), and CellAddr(ca.String()) on the address it returned
ApplyCellAddr ==
  /\ fn.name = "text"
  /\ \E r \in {CellAddr(fn.text)} :
       fn' = [name |-> "CellAddr", in |-> fn.text, out |-> r,
              str |-> IF r.ok THEN String(r.addr) ELSE <<>>,
              back |-> IF r.ok THEN CellAddr(String(r.addr)) ELSE r]
  /\ UNCHANGED <<matrix, heap, OnCellUpdated, updates, panicked, overflowed, entered, edits, last>>

\* ca.NextCol() on the drawn address
ApplyNextCol ==
  /\ fn.name = "addr"
  /\ fn' = [name |-> "NextCol", in |-> fn.addr, out |-> NextCol(fn.addr)]
  /\ UNCHANGED <<matrix, heap, OnCellUpdated, updates, panicked, overflowed, entered, edits, last>>

\* it, err = it.NextCol(), repeated from column A until it fails
WalkNextCol ==
  /\ fn.name = "walk" /\ fn.err = NoErr
  /\ \E r \in {NextCol(fn.addr)} :
       fn' = [name |-> "walk", addr |-> r.addr,
              n |-> IF r.ok THEN fn.n + 1 ELSE fn.n, err |-> r.err]
  /\ UNCHANGED <<matrix, heap, OnCellUpdated, updates, panicked, overflowed, entered, edits, last>>

\* LessCol and LEQCol among the three drawn addresses
CompareCols ==
  /\ fn.name = "cols"
  /\ fn' = [name |-> "LessCol", a |-> fn.a, b |-> fn.b, c |-> fn.c,
            aa |-> LessCol(fn.a, fn.a), ab |-> LessCol(fn.a, fn.b),
            ba |-> LessCol(fn.b, fn.a), bc |-> LessCol(fn.b, fn.c),
            ac |-> LessCol(fn.a, fn.c), leq |-> LEQCol(fn.a, fn.b)]
  /\ UNCHANGED <<matrix, heap, OnCellUpdated, updates, panicked, overflowed, entered, edits, last>>

NextAddr ==
  \/ ApplyCellAddr
  \/ ApplyNextCol
  \/ WalkNextCol
  \/ CompareCols

SpecAddr == InitAddr /\ [][NextAddr]_vars

\* ------------------------------------------------------------------------
\* The sheet with its accessors called between the edits
\* ------------------------------------------------------------------------
\* an accessor result taken while every looked-up cell is created on the way
ReadAt_Materializing(S, addr) ==
  LET Made(r) ==
        [S |-> r.S, value |-> ValueAt(r.S, addr), content |-> ContentAt(r.S, addr),
         edit |-> EditAt(r.S, addr)]
      At(a) ==
        IF ~a.ok
        THEN [S |-> S, value |-> ValueAt(S, addr), content |-> ContentAt(S, addr),
              edit |-> EditAt(S, addr)]
        ELSE Made(cellOrNewAt(S, a.addr, {}))
  IN At(CellAddr(addr))

\* s.ValueAt(addr), s.ContentAt(addr) and s.EditAt(addr), one after the other:
\* the three results and the sheet afterwards, which none of them assigns to
ReadAt(S, addr) ==
  [S |-> S, value |-> ValueAt(S, addr), content |-> ContentAt(S, addr),
   edit |-> EditAt(S, addr)]

\* the contents entered before the accessors are called
ReadContents ==
  { <<>>, <<"1">>, <<"x">>, <<"=", "A", "2">>, <<"=", "A", "1", "+", "A", "2">> }

\* the addresses read: those edited, one never edited, and one that is invalid
ReadInputs == AddrInputs \cup {<<"b", "2">>, <<"A", "A", "A", "1">>}

\* the accessors are called on addr
CallReadAt(addr) ==
  /\ ~panicked /\ ~overflowed
  /\ \E r \in {ReadAt(Now, addr)} :
       /\ matrix' = r.S.matrix
       /\ heap' = r.S.heap
       /\ updates' = updates \o r.S.log
       /\ fn' = [name |-> "ReadAt", in |-> addr,
                 before |-> [matrix |-> matrix, heap |-> heap, updates |-> updates],
                 value |-> r.value, content |-> r.content, edit |-> r.edit]
  /\ UNCHANGED <<OnCellUpdated, panicked, overflowed, entered, edits, last>>

NextRead ==
  \/ \E addr \in AddrInputs, content \in ReadContents : SetContent(addr, content)
  \/ SetOnCellUpdated
  \/ \E addr \in ReadInputs : CallReadAt(addr)

SpecRead == Init /\ [][NextRead]_vars

\* ------------------------------------------------------------------------
\* The sheet with each call's circumstances kept
\* ------------------------------------------------------------------------
\* the address strings of the calls: those of AddrInputs and an invalid one
ObservedInputs == AddrInputs \cup {<<"A", "A", "A", "1">>}

\* the addresses a content names in a formula that parsed and resolved
NamedBy(content) ==
  IF content = <<>> \/ Head(content) # "=" THEN {}
  ELSE LET Resolved(u) == IF u.err # NoErr THEN {} ELSE Range(u.addrs)
           Parsed(x) == IF x.err # NoErr THEN {} ELSE Resolved(upstreamAddrs(x.e))
       IN Parsed(ParseExpression(content))

\* the pairs <<c, e>> so far where a formula at c that named e was replaced
\* by a content that does not
Formerly == IF fn.name = "SetContent" THEN fn.formerly ELSE {}

\* s.SetContent(addr, content), as SetContent, with fn keeping what the sheet
\* was before the call, whether the callback was set, and the cells that
\* recursed from the cyclic branch
ObservedSetContent(addr, content) ==
  /\ ~panicked
  /\ ~overflowed
  /\ edits < MaxEdits
  /\ edits' = edits + 1
  /\ \E r \in {SheetSetContent(Now, addr, content)}, a \in {CellAddr(addr)} :
        /\ last' = [addr |-> addr, content |-> content, err |-> r.err]
        /\ panicked' = r.S.panic
        /\ overflowed' = r.S.overflow
        /\ IF r.S.panic \/ r.S.overflow
           THEN /\ matrix' = <<>>
                /\ heap' = <<>>
                /\ updates' = <<>>
                /\ entered' = [x \in Addrs |-> <<>>]
           ELSE /\ matrix' = r.S.matrix
                /\ heap' = r.S.heap
                /\ updates' = r.S.log
                /\ entered' = IF a.ok THEN [entered EXCEPT ![a.addr] = content]
                              ELSE entered
        /\ fn' = [name |-> "SetContent", cb |-> OnCellUpdated,
                  before |-> [matrix |-> matrix, heap |-> heap, entered |-> entered],
                  rounds |-> r.S.rounds,
                  formerly |-> Formerly \cup
                               (IF a.ok
                                THEN {<<a.addr, e>> :
                                        e \in NamedBy(entered[a.addr]) \ NamedBy(content)}
                                ELSE {})]
        /\ UNCHANGED OnCellUpdated

NextObserved ==
  \/ \E addr \in ObservedInputs, content \in ReadContents : ObservedSetContent(addr, content)
  \/ SetOnCellUpdated

SpecObserved == Init /\ [][NextObserved]_vars

\* ------------------------------------------------------------------------
\* The same edits in two orders
\* ------------------------------------------------------------------------
\* the calls drawn: an address of AddrInputs and a content of ReadContents
EditInputs == {[addr |-> addr, content |-> content] : addr \in AddrInputs, content \in ReadContents}

\* two calls on different addresses, to be made in either order on a new
\* sheet, and a third to be made after them
InitOrder ==
  Drawn({d \in {[name |-> "edits", first |-> e1, second |-> e2, then |-> e3] :
                  e1 \in EditInputs, e2 \in EditInputs, e3 \in EditInputs} :
           d.first.addr # d.second.addr})

\* s := NewSheet(); s.SetContent(e1...); s.SetContent(e2...): the sheet
\* after the two calls, unless the first one aborted
AfterTwo(e1, e2) ==
  LET Second(r) ==
        IF r.S.panic \/ r.S.overflow THEN r.S
        ELSE SheetSetContent(MkSheet(r.S.matrix, r.S.heap, FALSE), e2.addr, e2.content).S
  IN Second(SheetSetContent(MkSheet(<<>>, <<>>, FALSE), e1.addr, e1.content))

\* s.SetContent(e3...) on the sheet S
AfterThird(S, e3) ==
  IF S.panic \/ S.overflow THEN S
  ELSE SheetSetContent(MkSheet(S.matrix, S.heap, FALSE), e3.addr, e3.content).S

\* the drawn calls are made on two new sheets: first, second, then on one,
\* and second, first, then on the other
ReplayBoth ==
  /\ fn.name = "edits"
  /\ \E x \in {AfterTwo(fn.first, fn.second)}, y \in {AfterTwo(fn.second, fn.first)} :
       fn' = [name |-> "ReplayBoth", first |-> fn.first, second |-> fn.second,
              then |-> fn.then, midOne |-> x, midOther |-> y,
              one |-> AfterThird(x, fn.then), other |-> AfterThird(y, fn.then)]
  /\ UNCHANGED <<matrix, heap, OnCellUpdated, updates, panicked, overflowed, entered, edits, last>>

NextOrder == ReplayBoth

SpecOrder == InitOrder /\ [][NextOrder]_vars

\* ------------------------------------------------------------------------
\* WriteRange, one loop iteration at a time
\* ------------------------------------------------------------------------
\* the ranges written: two rows of two columns, one column, the last two
\* columns, the last column alone, and the last row
WriteInputs ==
  { <<MkAddr(<<"A">>, <<"1">>), MkAddr(<<"B">>, <<"2">>)>>,
    <<MkAddr(<<"A">>, <<"2">>), MkAddr(<<"A">>, <<"2">>)>>,
    <<MkAddr(<<"Z", "Y">>, <<"1">>), MkAddr(<<"Z", "Z">>, <<"2">>)>>,
    <<MkAddr(<<"Z", "Z">>, <<"1">>), MkAddr(<<"Z", "Z">>, <<"2">>)>>,
    <<MkAddr(<<"A">>, MaxUint32Digits), MkAddr(<<"A">>, MaxUint32Digits)>> }

\* the addresses of the calls that fill the sheet before it is written
WriteAddrs == AddrInputs \cup {<<"Z", "Y", "2">>}

\* WriteRange is between its first and its last statement
Writing == fn.name = "WriteRange" /\ fn.pc \in {"rows", "cols"}

\* s.WriteRange(start, end, w) is called: row := start.row
CallWriteRange(start, end) ==
  /\ ~panicked
  /\ ~overflowed
  /\ ~Writing
  /\ fn' = [name |-> "WriteRange", start |-> start, end |-> end, pc |-> "rows",
            row |-> start.row, col |-> NoAddr, w |-> <<>>, err |-> NoErr,
            rows |-> 1, turn |-> 0, cut |-> FALSE]
  /\ UNCHANGED <<matrix, heap, OnCellUpdated, updates, panicked, overflowed, entered, edits, last>>

\* for row := start.row; row <= end.row; ...: the test of the outer loop, and
\* col := CellAddress{col: start.col, row: row}.  Of a loop that goes on the
\* model follows MaxLoop rows.
RowStep ==
  /\ Writing
  /\ fn.pc = "rows"
  /\ fn' = IF ~(fn.row = fn.end.row \/ RowLess(fn.row, fn.end.row))
           THEN [fn EXCEPT !.pc = "done"]
           ELSE IF fn.rows > MaxLoop THEN [fn EXCEPT !.pc = "cut", !.cut = TRUE]
           ELSE [fn EXCEPT !.pc = "cols", !.col = MkAddr(fn.start.col, fn.row)]
  /\ UNCHANGED <<matrix, heap, OnCellUpdated, updates, panicked, overflowed, entered, edits, last>>

\* for ; col.LEQCol(end); col, _ = col.NextCol() {...}: the test of the inner
\* loop and one run of its body, or row++ where the test fails; turn tells
\* one run of the body from the next
ColStep ==
  /\ Writing
  /\ fn.pc = "cols"
  /\ \E command \in {IF HasCell(Now, fn.col) THEN EditValue(heap[cellAt(Now, fn.col)])
                      ELSE [s |-> <<>>, err |-> NoErr]} :
       fn' = IF ~LEQCol(fn.col, fn.end)
             THEN [fn EXCEPT !.pc = "rows", !.row = RowSucc(fn.row), !.rows = @ + 1]
             ELSE IF ~HasCell(Now, fn.col)
             THEN [fn EXCEPT !.col = NextCol(fn.col).addr, !.turn = 1 - @]
             ELSE IF command.err # NoErr
             THEN [fn EXCEPT !.pc = "done", !.err = command.err]
             ELSE [fn EXCEPT !.col = NextCol(fn.col).addr, !.turn = 1 - @,
                             !.w = @ \o Record(fn.col, command.s)]
  /\ UNCHANGED <<matrix, heap, OnCellUpdated, updates, panicked, overflowed, entered, edits, last>>

NextWrite ==
  \/ \E addr \in WriteAddrs, content \in IOContents : ~Writing /\ SetContent(addr, content)
  \/ \E range \in WriteInputs : CallWriteRange(range[1], range[2])
  \/ RowStep
  \/ ColStep

\* a call of WriteRange that has begun runs on: the program is sequential and
\* nothing can hold a loop iteration back
SpecWrite == Init /\ [][NextWrite]_vars /\ WF_vars(RowStep \/ ColStep)

\* ------------------------------------------------------------------------
\* Read, one record at a time
\* ------------------------------------------------------------------------
\* the records handed to Read: an address, a declared length, at most that
\* many content bytes, and the newline that ends the record or nothing
RecordInputs ==
  { rec \in [addr : {<<"b", "1">>, <<"1", "A">>, <<"A", "0">>},
             clen : {<<"0">>, <<"1">>, <<"2">>, <<"4", "0", "9", "7">>},
             body : {<<>>, <<"1">>, <<" ", "x">>, <<"x", "\n">>},
             end : {<<"\n">>, <<>>}] :
      Len(rec.body) <= DigitsValue(rec.clen) }

\* the bytes of a record on the stream
RecordText(rec) == rec.addr \o <<" ">> \o rec.clen \o <<" ">> \o rec.body \o rec.end

\* sheet.Read(strings.NewReader(text)): fn holds the record, the error and
\* the sheet before the call
SheetRead(rec) ==
  /\ ~panicked
  /\ ~overflowed
  /\ \E d \in {read(RecordText(rec))} :
       /\ fn' = [name |-> "Read", in |-> rec,
                 before |-> [matrix |-> matrix, heap |-> heap],
                 out |-> IF d.err # NoErr THEN d.err
                         ELSE SheetSetContent(Now, String(d.addr), d.c).err]
       /\ IF d.err # NoErr
          THEN UNCHANGED <<matrix, heap, OnCellUpdated, updates, panicked,
                           overflowed, entered, edits, last>>
          ELSE /\ edits < MaxEdits
               /\ edits' = edits + 1
               /\ \E r \in {SheetSetContent(Now, String(d.addr), d.c)} :
                    /\ last' = [addr |-> String(d.addr), content |-> d.c, err |-> r.err]
                    /\ panicked' = r.S.panic
                    /\ overflowed' = r.S.overflow
                    /\ IF r.S.panic \/ r.S.overflow
                       THEN /\ matrix' = <<>>
                            /\ heap' = <<>>
                            /\ updates' = <<>>
                            /\ entered' = [x \in Addrs |-> <<>>]
                       ELSE /\ matrix' = r.S.matrix
                            /\ heap' = r.S.heap
                            /\ updates' = r.S.log
                            /\ entered' = IF d.addr \in Addrs
                                          THEN [entered EXCEPT ![d.addr] = d.c]
                                          ELSE entered
               /\ UNCHANGED OnCellUpdated

\* a sheet is filled and then reads one record
NextRecord ==
  \/ \E addr \in AddrInputs, content \in IOContents :
       fn.name # "Read" /\ SetContent(addr, content)
  \/ \E rec \in RecordInputs : fn.name # "Read" /\ SheetRead(rec)

SpecRecord == Init /\ [][NextRecord]_vars

\* ------------------------------------------------------------------------
\* What the properties speak about
\* ------------------------------------------------------------------------
A1 == MkAddr(<<"A">>, <<"1">>)

A2 == MkAddr(<<"A">>, <<"2">>)

B1 == MkAddr(<<"B">>, <<"1">>)

\* the formula contents of the model, by name
FSelfA1 == <<"=", "(", "A", "1", "+", "A", "1", ")">>

FRefA2 == <<"=", "A", "2">>

FRefB1 == <<"=", "B", "1">>

FSumA1A2 == <<"=", "A", "1", "+", "A", "2">>

NumOne == <<"1">>

TextX == <<"x">>

\* a content is a formula
IsFormula(content) == content # <<>> /\ Head(content) = "="

\* the addresses a content refers to, one per reference node: those of a
\* formula that parses and whose identifiers all are addresses, else none
RefsComputed(content) ==
  IF ~IsFormula(content) THEN <<>>
  ELSE LET x == ParseExpression(content) IN
       IF x.err # NoErr THEN <<>> ELSE upstreamAddrs(x.e).addrs

\* a content is a formula that parsed and resolved
ResolvedComputed(content) ==
  /\ IsFormula(content)
  /\ LET x == ParseExpression(content) IN
       x.err = NoErr /\ upstreamAddrs(x.e).err = NoErr

\* the contents the calls of the specifications use
CallContents == ContentInputs \cup ReadContents \cup IOContents

\* both of them, computed once for each content the calls use
RefsTable == [content \in CallContents |-> RefsComputed(content)]

ResolvedTable == [content \in CallContents |-> ResolvedComputed(content)]

RefsOf(content) ==
  IF content \in CallContents THEN RefsTable[content] ELSE RefsComputed(content)

IsResolved(content) ==
  IF content \in CallContents THEN ResolvedTable[content] ELSE ResolvedComputed(content)

RECURSIVE AddOnly(_)
\* an expression built from references and '+' only
AddOnly(e) ==
  \/ e.op = "ID"
  \/ e.op = "ADD" /\ AddOnly(e.left) /\ AddOnly(e.right)

\* the addresses that took part in some call or are named by a formula
Known == Addrs \cup UNION {Range(RefsOf(entered[a])) : a \in Addrs}

\* the content at an address, as entered
EnteredAt(a) == IF a \in Addrs THEN entered[a] ELSE <<>>

\* a references b in its current formula
RefersTo(a, b) == b \in Range(RefsOf(EnteredAt(a)))

RECURSIVE Descendants(_)
\* the addresses reachable from a set by following references
Descendants(as) ==
  LET more == as \cup {b \in Known : \E a \in as : RefersTo(a, b)}
  IN IF more = as THEN as ELSE Descendants(more)

\* a lies on a reference cycle
OnCycle(a) == \E b \in Known : RefersTo(a, b) /\ a \in Descendants({b})

\* a transitively depends on b
DependsOn(a, b) == \E m \in Known : RefersTo(a, m) /\ b \in Descendants({m})

\* the cell materialized at an address
CellOf(a) == heap[cellAt(Now, a)]

\* a value read by ValueAt fails
Fails(a) == ValueAt(Now, String(a)).err # NoErr

\* the display content of a cyclical formula at a
CyclicalContent(a) == String(a) \o <<": ">> \o CyclicalErr

\* ------------------------------------------------------------------------
\* Properties
\* ------------------------------------------------------------------------
\* what Value must give for a formula at a, computed afresh from the values
\* of the cells it references
Expected(a) ==
  LET r == Eval(ParseExpression(entered[a]).e, Now) IN
  IF r.err = NoErr THEN [f |-> r.f, err |-> NoErr]
  ELSE [f |-> 0, err |-> String(a) \o <<": ">> \o r.err]

\* C1: in a sheet without reference cycles, after any sequence of SetContent
\* calls every formula built from references, '+' and parentheses holds the
\* value or error that evaluating it against the current values of the cells
\* it references gives.
C1_UpToDate ==
  (~panicked /\ \A a \in Addrs : ~OnCycle(a))
  => \A a \in Addrs :
       (IsResolved(entered[a]) /\ AddOnly(ParseExpression(entered[a]).e))
       => /\ HasCell(Now, a)
          /\ Value(CellOf(a)) = Expected(a)

\* C2: after any sequence of SetContent calls, every formula cell that lies on
\* a reference cycle shows "<its address>: Cyclical equations detected." and
\* its ValueAt fails.
C2_CycleMarked ==
  ~panicked
  => \A a \in Addrs :
       (IsResolved(entered[a]) /\ OnCycle(a))
       => /\ HasCell(Now, a)
          /\ ContentAt(Now, String(a)).s = CyclicalContent(a)
          /\ Fails(a)

\* C3: every SetContent call terminates: Recalculate never nests deeper than
\* MaxDepth, whatever cycles the sheet holds, so the finitely many calls of
\* each level end.
C3_Terminates == ~overflowed

\* a call that closed two cycles sharing a cell (A1 <-> A2 and A2 -> A2) has
\* returned
C3_Witness ==
  /\ ~panicked /\ ~overflowed
  /\ entered[A1] = FRefA2 /\ entered[A2] = FSumA1A2
  /\ last.addr = String(A2)
  /\ Fails(A1) /\ Fails(A2)

\* C4: the cyclical-dependency error is recorded only on formulas that are
\* on a reference cycle.
C4_OnlyOnCycle ==
  ~panicked
  => \A a \in Addrs :
       (HasCell(Now, a) /\ CellOf(a).cell_type = cell_expr /\ ~OnCycle(a))
       => CellOf(a).expErr # CyclicalErr

\* the number of occurrences of x in a sequence
Count(seq, x) == Cardinality({i \in 1..Len(seq) : seq[i] = x})

\* C5: after every SetContent the upstream and downstream lists are exact
\* inverses with multiplicity, and they mirror the reference nodes of the
\* current resolved formulas; other cells have no upstream.
C5_Symmetric ==
  ~panicked
  => \A c \in DOMAIN heap :
       /\ \A u \in DOMAIN heap :
            /\ Count(heap[u].downstream, c) = Count(heap[c].upstream, u)
            /\ Count(heap[c].upstream, u)
                 = Count(RefsOf(EnteredAt(heap[c].addr)), heap[u].addr)
       /\ Range(heap[c].upstream) \cup Range(heap[c].downstream) \subseteq DOMAIN heap
       /\ ~IsResolved(EnteredAt(heap[c].addr)) => heap[c].upstream = <<>>

\* a formula that names A1 twice was replaced at A2 while B1 still names A2
C5_Witness ==
  /\ ~panicked
  /\ HasCell(Now, A1) /\ HasCell(Now, A2) /\ HasCell(Now, B1)
  /\ Count(CellOf(A1).downstream, cellAt(Now, A2)) = 2
  /\ Count(CellOf(A2).upstream, cellAt(Now, A1)) = 2
  /\ Len(CellOf(A1).downstream) = 3
  /\ edits >= 3

\* some resolved formula references address a
Referenced(a) == \E b \in Addrs : RefersTo(b, a)

\* C6: an address without content has a (transient) cell exactly when some
\* formula references it; such a cell reads 0 and "".
C6_Transient ==
  ~panicked
  => \A a \in Known :
       EnteredAt(a) = <<>>
       => /\ HasCell(Now, a) <=> Referenced(a)
          /\ HasCell(Now, a)
             => /\ CellOf(a).cell_type = cell_transient
                /\ ValueAt(Now, String(a)) = [f |-> 0, err |-> NoErr]
                /\ ContentAt(Now, String(a)) = [s |-> <<>>, err |-> NoErr]

\* A1 was cleared while A2 references it, and is kept as a transient cell
C6_WitnessKept ==
  /\ ~panicked
  /\ last = [addr |-> String(A1), content |-> <<>>, err |-> NoErr]
  /\ entered[A2] = FSelfA1
  /\ HasCell(Now, A1) /\ CellOf(A1).cell_type = cell_transient

\* s starts with prefix
HasPrefix(s, prefix) ==
  Len(s) >= Len(prefix) /\ SubSeq(s, 1, Len(prefix)) = prefix

\* some cell referenced by the formula at a fails
SomeRefFails(a) == \E b \in Known : RefersTo(a, b) /\ Fails(b)

\* C7 (first half): a formula with a valid expression fails, and shows
\* "<address>: <message>", whenever a cell it references fails.
C7_ErrorsPropagate ==
  ~panicked
  => \A a \in Addrs :
       (IsResolved(entered[a]) /\ SomeRefFails(a))
       => /\ Fails(a)
          /\ HasPrefix(ContentAt(Now, String(a)).s, String(a) \o <<": ">>)
          /\ Len(ContentAt(Now, String(a)).s) > Len(String(a)) + 1

\* C7 (second half): a formula none of whose referenced cells fails, and
\* which is on no cycle, does not fail.
C7_OnlyAlongReferences ==
  ~panicked
  => \A a \in Addrs :
       (IsResolved(entered[a]) /\ ~SomeRefFails(a) /\ ~OnCycle(a)) => ~Fails(a)

\* C7: errors propagate along references and only along them.
C7_Errors == C7_ErrorsPropagate /\ C7_OnlyAlongReferences

\* the address of the last call
LastAddr == CellAddr(last.addr).addr

\* C8: a formula problem never makes SetContent fail or abort: after a call
\* that sets a formula at a valid address (one that does not parse, names a
\* malformed address, uses any operator, or references a text cell) no error
\* is returned, the program has not aborted, and, in a sheet without
\* reference cycles, every formula that references the edited cell has been
\* recalculated against it.
C8_FormulaContained ==
  (IsFormula(last.content) /\ CellAddr(last.addr).ok)
  => /\ ~panicked
     /\ last.err = NoErr
     /\ (\A a \in Addrs : ~OnCycle(a))
        => \A d \in Addrs :
             (IsResolved(entered[d]) /\ RefersTo(d, LastAddr))
             => Value(CellOf(d)) = Expected(d)

\* C9: a cell set to a number reads that number, and a cell set to text
\* fails to read, right after the call and after any later calls on other
\* addresses, whatever formulas reference it.
C9_Literals ==
  ~panicked
  => \A a \in Addrs :
       /\ (entered[a] # <<>> /\ ParseFloat(entered[a]).ok)
          => ValueAt(Now, String(a)) = [f |-> DigitsValue(entered[a]), err |-> NoErr]
       /\ (entered[a] # <<>> /\ ~IsFormula(entered[a]) /\ ~ParseFloat(entered[a]).ok)
          => Fails(a)

\* A1 holds a number and B1 text while the self-referencing formula at A2,
\* which reads A1, was set after them
C9_Witness ==
  /\ ~panicked
  /\ entered[A1] = NumOne /\ entered[B1] = TextX /\ entered[A2] = FSumA1A2
  /\ last.addr = String(A2)
  /\ ValueAt(Now, String(A1)).f = 1 /\ Fails(B1) /\ Fails(A2)

\* the formulas of the model whose top node is '-', '*' or '/'
OperatorFormulas ==
  { <<"=", "A", "1", "-", "A", "2">>,
    <<"=", "A", "1", "*", "A", "2">>,
    <<"=", "A", "1", "/", "A", "2">> }

\* the arithmetic an operator node stands for, on whole numbers
Arith(o, l, r) ==
  CASE o = "ADD" -> l + r
    [] o = "SUB" -> l - r
    [] o = "MUL" -> l * r
    [] o = "DIV" -> IF r = 0 THEN 0 ELSE l \div r

\* C10: a formula with '-', '*' or '/' set through SetContent yields that
\* arithmetic result of its two operands from ValueAt, as '+' yields the sum.
C10_Operators ==
  (last.content \in OperatorFormulas)
  => /\ ~panicked
     /\ LET e == ParseExpression(last.content).e
            l == ValueAt(Now, e.left.val)
            r == ValueAt(Now, e.right.val)
        IN (l.err = NoErr /\ r.err = NoErr /\ LastAddr \notin {A1, A2})
           => ValueAt(Now, last.addr) = [f |-> Arith(e.op, l.f, r.f), err |-> NoErr]

\* C11: during a SetContent the callback is never called for the cell whose
\* content is being set; it is called only for other cells.
C11_NotForEdited ==
  (OnCellUpdated /\ ~panicked /\ last # NoCall)
  => \A i \in 1..Len(updates) : updates[i].addr # String(LastAddr)

\* the columns and rows that hold a materialized cell
MaterializedCols == {col \in DOMAIN matrix : DOMAIN matrix[col] # {}}

MaterializedRows == UNION {DOMAIN matrix[col] : col \in DOMAIN matrix}

\* the column order of the sheet: A..Z, then AA..ZZ
ColIndex(col) ==
  IF Len(col) = 1 THEN LetterIndex(col[1])
  ELSE 26 * LetterIndex(col[1]) + LetterIndex(col[2])

\* C12: the bounds reflect only materialized cells: maxCol is the greatest
\* column that holds a materialized cell and maxRow the greatest materialized
\* row, also after the only cell of the highest column was cleared and pruned.
C12_Bounds ==
  (~panicked /\ MaterializedCols # {})
  => /\ \A m \in maxCol(Now) :
          /\ m.col \in MaterializedCols
          /\ \A col \in MaterializedCols : ColIndex(col) <= ColIndex(m.col)
     /\ \A r \in maxRow(Now) :
          /\ r \in MaterializedRows
          /\ \A row \in MaterializedRows : DigitsValue(row) <= DigitsValue(r)

\* the addresses of the model inside the rectangle from start to end
InRange(start, end) ==
  {a \in RangeCorners :
     /\ LEQCol(start, a) /\ LEQCol(a, end)
     /\ DigitsValue(start.row) <= DigitsValue(a.row)
     /\ DigitsValue(a.row) <= DigitsValue(end.row)}

\* C13: writing a range with WriteRange and feeding the stream record by
\* record into Read on a new sheet gives a sheet in which ValueAt and ContentAt
\* return, for every address of the range, what they return in the original.
C13_RoundTrip ==
  (fn.name = "Reimport" /\ ~fn.out.cut)
  => /\ fn.out.werr = NoErr
     /\ fn.out.err = ErrEOF
     /\ \A a \in InRange(fn.in.start, fn.in.end) :
          /\ ValueAt(fn.out.S, String(a)) = ValueAt(Now, String(a))
          /\ ContentAt(fn.out.S, String(a)) = ContentAt(Now, String(a))

\* '=A1+B2-C3+E4' and '=A1+B2*C3-E4/F5*G6' with the trees they stand for
LeftChain ==
  OpExp("ADD", OpExp("SUB", OpExp("ADD", IdExp(<<"A", "1">>), IdExp(<<"B", "2">>)),
                     IdExp(<<"C", "3">>)),
        IdExp(<<"E", "4">>))

Mixed ==
  OpExp("SUB", OpExp("ADD", IdExp(<<"A", "1">>),
                     OpExp("MUL", IdExp(<<"B", "2">>), IdExp(<<"C", "3">>))),
        OpExp("MUL", OpExp("DIV", IdExp(<<"E", "4">>), IdExp(<<"F", "5">>)),
              IdExp(<<"G", "6">>)))

\* C14: ParseExpression builds the tree dictated by the grammar: parsing the
\* text of a tree gives that tree back, whatever parentheses the text has
\* beyond the needed ones, with every identifier's text unchanged; so '*' and
\* '/' bind tighter than '+' and '-' and equal operators associate to the left.
C14_GrammarTree ==
  /\ (fn.name = "ParseRendered") => (fn.out.err = NoErr /\ fn.out.e = fn.tree)
  /\ Render(LeftChain, "needed") = <<"A", "1", "+", "B", "2", "-", "C", "3", "+", "E", "4">>
  /\ ParseExpression(<<"=">> \o Render(LeftChain, "needed")).e = LeftChain
  /\ Render(Mixed, "needed")
       = <<"A", "1", "+", "B", "2", "*", "C", "3", "-", "E", "4", "/", "F", "5", "*", "G", "6">>
  /\ ParseExpression(<<"=">> \o Render(Mixed, "needed")).e = Mixed

\* a tree with a weaker operator under a stronger one and a right operand of
\* the same strength has been written with the needed parentheses and parsed
C14_Witness ==
  /\ fn.name = "ParseRendered"
  /\ fn.in = <<"=", "(", "A", "1", "+", "b", "2", ")", "*", "(", "A", "1", "/", "b", "2", ")">>
  /\ fn.out.e.op = "MUL" /\ fn.out.e.left.op = "ADD" /\ fn.out.e.right.op = "DIV"

\* C15: the parser never skips white space: ParseExpression returns an error
\* for every formula with a white space character anywhere after the '='.
C15_Whitespace ==
  (fn.name = "ParseText" /\ \E i \in 2..Len(fn.in) : IsSpace(fn.in[i]))
  => fn.out.err # NoErr

\* the digits of a row in 1..4294967295, leading zeros allowed
RowInRange(ds) ==
  /\ ds # <<>>
  /\ \A i \in 1..Len(ds) : IsDigit(ds[i])
  /\ StripZeros(ds) # <<"0">>
  /\ \/ Len(StripZeros(ds)) < 10
     \/ Len(StripZeros(ds)) = 10 /\ ~DigitsLess(MaxUint32Digits, StripZeros(ds))

\* s is k letters followed by a row in range
WellFormed(s, k) ==
  /\ k < Len(s)
  /\ \A i \in 1..k : IsLetter(s[i])
  /\ RowInRange(SubSeq(s, k + 1, Len(s)))

\* C16: CellAddr accepts exactly the strings made of one or two letters
\* followed by a decimal row in 1..4294967295 and returns the upper-cased
\* column and the row; every other string is rejected with an error.
C16_Accepts ==
  (fn.name = "CellAddr")
  => /\ fn.out.ok <=> \E k \in 1..2 : WellFormed(fn.in, k)
     /\ \A k \in 1..2 :
          WellFormed(fn.in, k)
          => fn.out.addr = MkAddr(ToUpper(SubSeq(fn.in, 1, k)),
                                  StripZeros(SubSeq(fn.in, k + 1, Len(fn.in))))

\* C17: for every address whose column is not ZZ, NextCol returns the same
\* row and the immediate successor column in column order; repeated from
\* column A it visits the 26 one-letter and then the 676 two-letter columns,
\* each once and in increasing order; on column ZZ it returns an error.
C17_Successor ==
  /\ (fn.name = "NextCol" /\ fn.in.col # lastCol)
     => /\ fn.out.ok /\ fn.out.err = NoErr
        /\ fn.out.addr.row = fn.in.row
        /\ fn.out.addr.col \in AllCols
        /\ ColIndex(fn.out.addr.col) = ColIndex(fn.in.col) + 1
        /\ LessCol(fn.in, fn.out.addr)
  /\ (fn.name = "NextCol" /\ fn.in.col = lastCol) => (~fn.out.ok /\ fn.out.err # NoErr)
  /\ (fn.name = "walk" /\ fn.err = NoErr)
     => /\ fn.addr.col \in AllCols /\ fn.addr.row = <<"7">>
        /\ ColIndex(fn.addr.col) = fn.n
        /\ (fn.n <= 26 <=> Len(fn.addr.col) = 1)
  /\ (fn.name = "walk" /\ fn.err # NoErr) => fn.n = 26 + 676

\* Z has been followed by AA, AZ by BA, and the walk from A has reached ZZ
\* and failed there
C17_Witness ==
  /\ fn.name = "walk" /\ fn.err # NoErr /\ fn.n = 702
  /\ NextCol(MkAddr(<<"Z">>, <<"1">>)).addr.col = <<"A", "A">>
  /\ NextCol(MkAddr(<<"A", "Z">>, <<"1">>)).addr.col = <<"B", "A">>

\* C18: LessCol is a strict order on columns that ignores the row:
\* irreflexive, transitive, total on distinct columns, every one-letter
\* column before every two-letter column, columns of equal length letter by
\* letter; LEQCol(a, b) holds exactly when LessCol(a, b) or the columns are equal.
C18_StrictOrder ==
  (fn.name = "LessCol")
  => /\ ~fn.aa
     /\ (fn.ab /\ fn.bc) => fn.ac
     /\ (fn.a.col # fn.b.col) => (fn.ab \/ fn.ba)
     /\ ~(fn.ab /\ fn.ba)
     /\ (Len(fn.a.col) < Len(fn.b.col)) => fn.ab
     /\ fn.ab <=> ColIndex(fn.a.col) < ColIndex(fn.b.col)
     /\ fn.leq <=> (fn.ab \/ fn.a.col = fn.b.col)

\* B has been compared with AZ, the rows differing, and with a third column
C18_Witness ==
  /\ fn.name = "LessCol"
  /\ fn.a = MkAddr(<<"B">>, <<"2">>) /\ fn.b = MkAddr(<<"A", "Z">>, <<"1">>)
  /\ fn.c = MkAddr(<<"B", "A">>, <<"1">>)
  /\ fn.ab /\ fn.bc /\ fn.ac /\ fn.leq

\* C19: for every string s accepted by CellAddr, CellAddr(String(CellAddr(s)))
\* succeeds and equals CellAddr(s), whatever the letter case of s.
C19_RoundTrip ==
  (fn.name = "CellAddr" /\ fn.out.ok)
  => (fn.back.ok /\ fn.back.err = NoErr /\ fn.back.addr = fn.out.addr)

\* a lower-case column with a zero-padded row went through String and back
C19_Witness ==
  /\ fn.name = "CellAddr" /\ fn.in = <<"z", "A", "0", "1">>
  /\ fn.out.ok /\ fn.str = <<"Z", "A", "1">> /\ fn.back.ok

\* the sheet as it was before the accessors were called
Before == MkSheet(fn.before.matrix, fn.before.heap, OnCellUpdated)

\* C20: ValueAt, ContentAt and EditAt are pure reads: for a valid address
\* with no materialized cell they return 0, '' and '' without error, and no
\* call to them, on a present or absent address, materializes a cell, changes
\* a cell's state or edges, changes the bounds, or fires the callback.
C20_PureReads ==
  (fn.name = "ReadAt")
  => /\ matrix = fn.before.matrix
     /\ heap = fn.before.heap
     /\ updates = fn.before.updates
     /\ maxCol(Now) = maxCol(Before) /\ maxRow(Now) = maxRow(Before)
     /\ (CellAddr(fn.in).ok /\ ~HasCell(Before, CellAddr(fn.in).addr))
        => /\ fn.value = [f |-> 0, err |-> NoErr]
           /\ fn.content = [s |-> <<>>, err |-> NoErr]
           /\ fn.edit = [s |-> <<>>, err |-> NoErr]

\* with the callback set and a formula in A1, the accessors were called on
\* the absent B2
C20_WitnessAbsent ==
  /\ fn.name = "ReadAt" /\ fn.in = <<"b", "2">>
  /\ OnCellUpdated /\ HasCell(Now, A1) /\ ~HasCell(Now, CellAddr(fn.in).addr)
  /\ Now.heap[cellAt(Now, A1)].cell_type = cell_expr
  /\ fn.value.err = NoErr

\* C23: in the non-cyclic branch of Recalculate the cell is evaluated, then
\* the callback is invoked for it, then its in-progress mark is cleared, and
\* only then are its dependents recalculated; hence the callback for the
\* edited cell, which is recalculated first, comes before every other
\* callback of the call, in a sheet without reference cycles.
C23_CallbackOrder ==
  (~panicked /\ updates # <<>> /\ \A a \in Addrs : ~OnCycle(a))
  => updates[1].addr = String(LastAddr)

\* the content entered at a is text: not empty, not a formula, not a number
IsText(content) ==
  content # <<>> /\ ~IsFormula(content) /\ ~ParseFloat(content).ok

\* C24: whenever a dependent is recalculated during a cascade, the cells it
\* references already hold their final values for this edit: in a sheet
\* without reference cycles, every callback of the call saw the value and
\* the display content that its cell has when the call returns.
C24_NoIntermediate ==
  (~panicked /\ \A a \in Addrs : ~OnCycle(a))
  => \A i \in 1..Len(updates) :
       /\ updates[i].value = ValueAt(Now, updates[i].addr)
       /\ updates[i].content = ContentAt(Now, updates[i].addr).s

\* C26: a text cell keeps its text: after SetContent(a, t) with text t,
\* ContentAt(a) returns exactly t, right after the call and after any later
\* calls on other addresses, whatever formulas reference a.
C26_TextKept ==
  ~panicked
  => \A a \in Addrs :
       IsText(entered[a]) => ContentAt(Now, String(a)) = [s |-> entered[a], err |-> NoErr]

\* C21: Sheet.SetContent leaves the sheet entirely unchanged (same cells,
\* same edges, same values, no callback invoked) when the address is
\* invalid, where it returns an error, and when the content is empty and no
\* cell is materialized at the address, where it returns success.
C21_NoOp ==
  (fn.name = "SetContent" /\ ~panicked)
  => /\ ~CellAddr(last.addr).ok
        => (last.err # NoErr /\ matrix = fn.before.matrix /\ heap = fn.before.heap
            /\ updates = <<>>)
     /\ (CellAddr(last.addr).ok /\ last.content = <<>> /\ ~HasCell(Before, LastAddr))
        => (last.err = NoErr /\ matrix = fn.before.matrix /\ heap = fn.before.heap
            /\ updates = <<>>)

\* with the callback set and a formula at A1, empty content was set at B1,
\* where there was no cell
C21_WitnessAbsent ==
  /\ fn.name = "SetContent" /\ fn.cb /\ ~panicked
  /\ last.addr = String(B1) /\ last.content = <<>> /\ ~HasCell(Before, B1)
  /\ HasCell(Now, A1) /\ CellOf(A1).cell_type = cell_expr

\* C25: within one SetContent, a cell that is re-entered while it is in
\* progress recurses into its upstream cells only the first time, so each
\* cell performs the cycle-marking upstream recursion at most once per call.
C25_OneRound ==
  (fn.name = "SetContent" /\ ~panicked /\ ~overflowed)
  => \A i \in 1..Len(fn.rounds), j \in 1..Len(fn.rounds) :
       fn.rounds[i] = fn.rounds[j] => i = j

\* the addresses that hold a cell in sheet S
Materialized(S) == {S.heap[c].addr : c \in MatrixCells(S.matrix)}

\* kind, value, cached error and display content of the cell at b in S
Shown(S, b) ==
  [cell_type |-> S.heap[cellAt(S, b)].cell_type, val |-> S.heap[cellAt(S, b)].val,
   expErr |-> S.heap[cellAt(S, b)].expErr, content |-> Content(S.heap[cellAt(S, b)])]

\* C27: SetContent(a, ...) changes the kind, value, cached error and display
\* content of no cell other than a and the cells that transitively depend on
\* a; the only other effect is creating or pruning transient cells named by
\* a's old or new formula.
C27_Frame ==
  (fn.name = "SetContent" /\ ~panicked /\ ~overflowed /\ CellAddr(last.addr).ok)
  => \A b \in (Materialized(Before) \cup Materialized(Now)) \ {LastAddr} :
       ~DependsOn(b, LastAddr)
       => /\ (HasCell(Before, b) /\ HasCell(Now, b)) => Shown(Now, b) = Shown(Before, b)
          /\ (HasCell(Before, b) /\ ~HasCell(Now, b))
             => /\ Before.heap[cellAt(Before, b)].cell_type = cell_transient
                /\ b \in NamedBy(fn.before.entered[LastAddr])
          /\ (~HasCell(Before, b) /\ HasCell(Now, b))
             => /\ CellOf(b).cell_type = cell_transient
                /\ b \in NamedBy(last.content)

\* C28: once a cell's formula has been replaced, the cell no longer depends
\* on the cells that only the old formula referenced: a later SetContent on
\* such a cell neither changes the replaced cell's value nor fires the
\* callback for it.
C28_Detached ==
  (fn.name = "SetContent" /\ ~panicked /\ ~overflowed /\ CellAddr(last.addr).ok)
  => \A p \in fn.formerly :
       (p[2] = LastAddr /\ p[1] # LastAddr /\ ~DependsOn(p[1], LastAddr)
        /\ HasCell(Before, p[1]) /\ HasCell(Now, p[1]))
       => /\ ValueAt(Now, String(p[1])) = ValueAt(Before, String(p[1]))
          /\ \A i \in 1..Len(updates) : updates[i].addr # String(p[1])

\* the places in the callback log of the last call that are for address b
UpdatesFor(b) == {i \in 1..Len(updates) : updates[i].addr = String(b)}

\* C29: when a callback is set, SetContent(a, ...) invokes it at least once
\* for every cell that transitively depends on a, and the last invocation
\* for each such cell sees the value, error and display content the cell has
\* when SetContent returns.
C29_Notified ==
  (fn.name = "SetContent" /\ fn.cb /\ ~panicked /\ ~overflowed /\ CellAddr(last.addr).ok)
  => \A b \in Addrs :
       DependsOn(b, LastAddr)
       => /\ UpdatesFor(b) # {}
          /\ \A i \in UpdatesFor(b) :
               (\A j \in UpdatesFor(b) : j <= i)
               => /\ updates[i].value = ValueAt(Now, String(b))
                  /\ updates[i].content = ContentAt(Now, String(b)).s

\* with the callback set, A2 was edited while B1 depends on it directly and
\* through A1, and the callback was invoked twice for B1
C29_WitnessDiamond ==
  /\ fn.name = "SetContent" /\ fn.cb /\ ~panicked
  /\ last.addr = String(A2) /\ last.content = NumOne
  /\ entered[B1] = FSumA1A2 /\ entered[A1] = FRefA2
  /\ Cardinality(UpdatesFor(B1)) = 2 /\ UpdatesFor(A1) # {}

\* C30: the two recursion-guard flags are transient: whenever no SetContent
\* is executing, before the first call and after every call has returned,
\* also calls that hit cycles, no cell has recalculating or errCycle set.
C30_FlagsClear ==
  ~panicked
  => \A c \in DOMAIN heap : ~heap[c].recalculating /\ ~heap[c].errCycle

\* a call in which A2 was re-entered twice and A1 once has returned
C30_WitnessCycles ==
  /\ fn.name = "SetContent" /\ ~panicked /\ ~overflowed
  /\ fn.rounds = <<A2, A1, A2>>
  /\ HasCell(Now, A1) /\ HasCell(Now, A2)

\* what a user can read of sheet S: kind, value, error and display content
\* of the cell at each address that holds one
Observable(S) == [b \in Materialized(S) |-> Shown(S, b)]

\* the addresses of the downstream list of the cell at b in S
DownstreamAt(S, b) ==
  [i \in 1..Len(S.heap[cellAt(S, b)].downstream) |->
     S.heap[S.heap[cellAt(S, b)].downstream[i]].addr]

\* S and T differ in the order of some cell's downstream list
OrderedDifferently(S, T) ==
  \E b \in Materialized(S) \cap Materialized(T) : DownstreamAt(S, b) # DownstreamAt(T, b)

\* neither of two sheets belongs to a program that aborted
BothRan(S, T) == ~S.panic /\ ~S.overflow /\ ~T.panic /\ ~T.overflow

\* C22: the state of the sheet after a SetContent does not depend on the
\* order in which a cell's dependents are recalculated: two sheets that hold
\* the same contents at the same addresses and show the same kind, value,
\* error and display content in every cell, but whose downstream lists are
\* ordered differently because the edits arrived in a different order, show
\* the same in every cell after the same edit.
C22_OrderFree ==
  (fn.name = "ReplayBoth" /\ BothRan(fn.one, fn.other)
   /\ OrderedDifferently(fn.midOne, fn.midOther)
   /\ Observable(fn.midOne) = Observable(fn.midOther))
  => Observable(fn.one) = Observable(fn.other)

\* the cells that occur in some cell's upstream or downstream list
Listed == UNION {Range(heap[c].upstream) \cup Range(heap[c].downstream) : c \in DOMAIN heap}

\* C31: after every SetContent returns, every cell that occurs in some cell's
\* upstream or downstream list is the very cell the sheet holds at its
\* address: no list refers to a cell that was pruned from the sheet or
\* superseded by a newly created cell at the same address.
C31_ListsCurrent ==
  ~panicked /\ ~overflowed
  => \A x \in Listed : HasCell(Now, heap[x].addr) /\ cellAt(Now, heap[x].addr) = x

\* the last call replaced the formula of A1, which referred to the blank cell
\* A2 that only A1 depended on, by a formula that refers to A2 again
C31_WitnessReattached ==
  /\ fn.name = "SetContent" /\ ~panicked /\ ~overflowed
  /\ LastAddr = A1 /\ entered[A2] = <<>> /\ RefersTo(A1, A2)
  /\ HasCell(Before, A1) /\ HasCell(Before, A2)
  /\ Before.heap[cellAt(Before, A2)].cell_type = cell_transient
  /\ Before.heap[cellAt(Before, A2)].downstream = <<cellAt(Before, A1)>>
  /\ HasCell(Now, A2) /\ cellAt(Now, A2) \in Range(CellOf(A1).upstream)
  /\ cellAt(Now, A1) \in Range(CellOf(A2).downstream)

\* C32: EditAt gives back what was entered: the formula text for a formula
\* (also one that failed to parse or evaluates to an error), the literal text
\* for text and for numbers alike, and the empty text for a cleared or
\* never-written address.
C32_EditGivesBack ==
  ~panicked /\ ~overflowed
  => \A a \in Addrs : EditAt(Now, String(a)) = [s |-> entered[a], err |-> NoErr]

RECURSIVE Identifiers(_)
\* the identifiers of an expression
Identifiers(e) ==
  IF e = NilExp THEN {}
  ELSE IF e.op = "ID" THEN {e.val}
  ELSE Identifiers(e.left) \cup Identifiers(e.right)

\* a content is a formula that parses and has an identifier that is no address
IsUnresolved(content) ==
  /\ IsFormula(content)
  /\ ParseExpression(content).err = NoErr
  /\ \E v \in Identifiers(ParseExpression(content).e) : ~CellAddr(v).ok

\* the addresses among the identifiers of a formula that parses
ValidNames(content) ==
  {CellAddr(v).addr : v \in {w \in Identifiers(ParseExpression(content).e) : CellAddr(w).ok}}

\* the contents of the calls that are such formulas
UnresolvedContents == {content \in ContentInputs : IsUnresolved(content)}

\* the addresses each of them names
NamesOfUnresolved == [content \in UnresolvedContents |-> ValidNames(content)]

\* C33: a formula that parses but contains an identifier that is not a valid
\* address is a deferred failure: SetContent returns success, the cell is a
\* formula cell whose ValueAt fails and whose ContentAt shows the error, and
\* it has no upstream cells; no cell lists it as a dependent, and a blank
\* address it names is materialized only if a resolved formula references it.
C33_Deferred ==
  ~panicked /\ ~overflowed
  => /\ (last.content \in UnresolvedContents /\ CellAddr(last.addr).ok) => last.err = NoErr
     /\ \A a \in Addrs :
          entered[a] \in UnresolvedContents
          => /\ HasCell(Now, a)
             /\ CellOf(a).cell_type = cell_expr
             /\ CellOf(a).upstream = <<>>
             /\ ValueAt(Now, String(a)).err # NoErr
             /\ ContentAt(Now, String(a)) =
                  [s |-> String(a) \o <<": ">> \o CellOf(a).expErr, err |-> NoErr]
             /\ CellOf(a).expErr # NoErr
             /\ \A c \in DOMAIN heap :
                  heap[c].addr # a => cellAt(Now, a) \notin Range(heap[c].downstream)
             /\ \A b \in NamesOfUnresolved[entered[a]] :
                  (entered[b] = <<>> /\ HasCell(Now, b)) => Referenced(b)

\* the last call put '=A1+5' into A2 while A1 is blank: A2 is a formula cell
\* and A1, which the formula names, is not in the sheet
C33_WitnessNamesBlank ==
  /\ ~panicked /\ ~overflowed
  /\ last = [addr |-> String(A2), content |-> <<"=", "A", "1", "+", "5">>, err |-> NoErr]
  /\ entered[A1] = <<>> /\ ~HasCell(Now, A1)
  /\ HasCell(Now, A2) /\ CellOf(A2).cell_type = cell_expr

RECURSIVE IsEXP(_)
RECURSIVE IsMDSEXP(_)
\* the grammar ParseExpression is documented to parse, read as a definition of
\* the texts it derives:  SUBEXP = LP EXP RP | ID,  ID = [a-zA-Z0-9]+
IsSUBEXP(t) ==
  \/ t # <<>> /\ \A i \in 1..Len(t) : t[i] \in IdSet
  \/ Len(t) >= 3 /\ t[1] = "(" /\ t[Len(t)] = ")" /\ IsEXP(SubSeq(t, 2, Len(t) - 1))

\* MDSEXP = SUBEXP MDEXP,  MDEXP = MUL SUBEXP MDEXP | DIV SUBEXP MDEXP | END
IsMDSEXP(t) ==
  \/ IsSUBEXP(t)
  \/ \E i \in 2..(Len(t) - 1) :
       /\ t[i] \in {"*", "/"}
       /\ IsSUBEXP(SubSeq(t, i + 1, Len(t)))
       /\ IsMDSEXP(SubSeq(t, 1, i - 1))

\* EXP = MDSEXP PMSEXP,  PMSEXP = ADD MDSEXP PMSEXP | SUB MDSEXP PMSEXP | END
IsEXP(t) ==
  \/ IsMDSEXP(t)
  \/ \E i \in 2..(Len(t) - 1) :
       /\ t[i] \in {"+", "-"}
       /\ IsMDSEXP(SubSeq(t, i + 1, Len(t)))
       /\ IsEXP(SubSeq(t, 1, i - 1))

\* C34: ParseExpression succeeds only on inputs that the grammar derives in
\* full: a successful parse has consumed the whole input, and an input with
\* characters left over, an unmatched closing parenthesis, an operator
\* without operand or a character outside the token alphabet fails.
C34_OnlyDerived ==
  (fn.name = "ParseText" /\ fn.out.err = NoErr)
  => /\ IsEXP(Tail(fn.in))
     /\ fn.out.p.r = <<>>
     /\ fn.out.p.look = NoTok

\* the parentheses a text opened and did not close
Open(t) ==
  Cardinality({i \in 1..Len(t) : t[i] = "("}) - Cardinality({i \in 1..Len(t) : t[i] = ")"})

\* n closing parentheses
Closers(n) == [i \in 1..n |-> ")"]

\* a text that stops where a derivation of the grammar can go on: it becomes
\* an EXP once its parentheses are closed, after one more operand if it
\* stopped where one is due
StopsInDerivation(t) ==
  /\ Open(t) >= 0
  /\ \/ IsEXP(t \o Closers(Open(t)))
     \/ IsEXP(t \o <<"A">> \o Closers(Open(t)))

\* C35: the end of the input ends the parse successfully exactly where a
\* repetition may stop, after a complete operand, and is a parse failure
\* wherever a token is mandatory: after '=' alone, after a trailing operator,
\* and before a required closing parenthesis.
C35_EndOfInput ==
  (fn.name = "ParseText" /\ StopsInDerivation(Tail(fn.in)))
  => (fn.out.err = NoErr <=> IsEXP(Tail(fn.in)))

\* '=(A+A' was parsed: the input ended before the closing parenthesis, and
\* the parse failed with the end of the input as its error
C35_WitnessUnclosed ==
  /\ fn.name = "ParseText"
  /\ fn.in = <<"=", "(", "A", "+", "A">>
  /\ StopsInDerivation(Tail(fn.in)) /\ ~IsEXP(Tail(fn.in))
  /\ fn.out.err = EOF

\* the error of an unreadToken that finds a token pending
CannotUnread == <<"Cannot unread more than one token.">>

\* C36: for every input the parser holds at most one pushed-back token at any
\* time: unreadToken is never called while a pushed-back token is pending, so
\* its error never comes out of ParseExpression, and a token that is pending
\* is what the very next nextTok call returns, which leaves none pending.
C36_OnePending ==
  fn.name = "ParseText"
  => /\ fn.out.err # CannotUnread
     /\ fn.out.p.look # NoTok
        => nextTok(fn.out.p) = [tok |-> fn.out.p.look, err |-> <<>>,
                                p |-> [fn.out.p EXCEPT !.look = NoTok]]

\* '=(A)*A' was parsed: the ')' is pushed back by parseMDEXP and again by
\* parsePMSEXP before expectTok takes it, and the parse succeeds
C36_WitnessPushedTwice ==
  /\ fn.name = "ParseText"
  /\ fn.in = <<"=", "(", "A", ")", "*", "A">>
  /\ fn.out.err = NoErr /\ fn.out.e.op = "MUL"
  /\ fn.out.p = [r |-> <<>>, look |-> NoTok]

\* the materialized cells of S in the rows from start.row to end.row and the
\* columns from start.col to end.col
CellsInRange(S, start, end) ==
  {a \in Materialized(S) :
     /\ ~RowLess(a.row, start.row) /\ ~RowLess(end.row, a.row)
     /\ ColIndex(start.col) <= ColIndex(a.col) /\ ColIndex(a.col) <= ColIndex(end.col)}

RECURSIVE RecordsOf(_, _)
\* one record '<address> <length of the edit content> <edit content>' and a
\* newline for each of the cells, by ascending row and, within a row, column
RecordsOf(S, cells) ==
  IF cells = {} THEN <<>>
  ELSE LET a == CHOOSE x \in cells :
                  \A y \in cells :
                    \/ RowLess(x.row, y.row)
                    \/ x.row = y.row /\ ColIndex(x.col) <= ColIndex(y.col)
           c == EditValue(S.heap[cellAt(S, a)]).s
       IN a.col \o a.row \o <<" ">> \o NatDigits(Len(c)) \o <<" ">> \o c \o <<"\n">>
          \o RecordsOf(S, cells \ {a})

\* C37: WriteRange(start, end) emits exactly one record for each materialized
\* cell in the rows and columns of the range and none for other cells, by
\* ascending row and within a row by ascending column, each of the form
\* '<address> <length of the edit content> <edit content>' and a newline:
\* every call comes to have written these records (or is one of which the
\* model follows no more rows), and has written nothing else when it returns.
C37_Records ==
  /\ [](fn.name = "WriteRange" /\ fn.pc = "done"
        => fn.err = NoErr /\ fn.w = RecordsOf(Now, CellsInRange(Now, fn.start, fn.end)))
  /\ (fn.name = "WriteRange")
       ~> (/\ fn.name = "WriteRange"
           /\ \/ fn.pc = "cut"
              \/ fn.w = RecordsOf(Now, CellsInRange(Now, fn.start, fn.end)))

\* C38: WriteRange terminates for every pair of valid start and end
\* addresses, also with an end address in the last column ZZ and with an end
\* row equal to the largest row 4294967295: every call that has begun comes
\* to its end (or is one of which the model follows no more rows).
C38_Terminates ==
  (fn.name = "WriteRange") ~> (fn.name = "WriteRange" /\ fn.pc \in {"done", "cut"})

\* what a record is on the stream
Truncated(rec) == Len(rec.body) < DigitsValue(rec.clen) \/ rec.end = <<>>
TooLong(rec) == DigitsValue(rec.clen) > 4096
BadAddress(rec) == ~\E k \in 1..2 : WellFormed(rec.addr, k)
GoodRecord(rec) == ~Truncated(rec) /\ ~TooLong(rec) /\ ~BadAddress(rec)

\* the sheet a Read started from
BeforeRead == MkSheet(fn.before.matrix, fn.before.heap, OnCellUpdated)

\* the sheet is as one SetContent(addr, content) on the sheet before leaves it
AppliedOnce(addr, content) ==
  LET Same(x) ==
        /\ fn.out = x.err
        /\ panicked = x.S.panic
        /\ overflowed = x.S.overflow
        /\ ~(x.S.panic \/ x.S.overflow) => matrix = x.S.matrix /\ heap = x.S.heap
  IN Same(SheetSetContent(BeforeRead, addr, content))

\* C39: Read returns an error and leaves the sheet unchanged when the record
\* is truncated (fewer content bytes than declared, or no terminating
\* newline), declares a length above 4096, or carries a malformed address; a
\* well-formed record of at most 4096 bytes is applied as one SetContent on
\* its address with exactly the declared content bytes, newlines included.
C39_ReadChecks ==
  fn.name = "Read" =>
    /\ (Truncated(fn.in) \/ TooLong(fn.in) \/ BadAddress(fn.in)) =>
          fn.out # NoErr /\ matrix = fn.before.matrix /\ heap = fn.before.heap
    /\ GoodRecord(fn.in) => AppliedOnce(fn.in.addr, fn.in.body)

====
